---- MODULE Spec2Model ----
(***************************************************************************)
(* Verification model of the Postly scraper (apps/scraper/src) and of the  *)
(* notification worker of the bot (apps/bot/src).                          *)
(*                                                                         *)
(*   SpiderSpec : HiringCafeSpider.scrape driven by                        *)
(*                ScraperSystem.run_hiring_cafe_spider, against a          *)
(*                nondeterministic hiring.cafe server.                     *)
(*   PipeSpec   : JobProcessingPipeline.process_job / process_batch with   *)
(*                DeduplicationMiddleware, the jobs table and the          *)
(*                EmbeddingWorker, two calls in sequence or overlapping.   *)
(*   PipeFaultSpec : the same calls one after the other, without the       *)
(*                worker, with a store lookup of the deduplication that    *)
(*                answers or raises.                                       *)
(*   EmbedSpec  : VoyageEmbeddingService.embed_jobs with its retried       *)
(*                sub-batch requests, and the store loop that follows.     *)
(*   DedupSpec  : DeduplicationMiddleware.is_duplicate and clear_cache     *)
(*                called by one coroutine, one call after the other.      *)
(*   FingerprintSpec : the two generate_fingerprint functions              *)
(*                (middlewares/deduplication.py, models.py) applied to    *)
(*                pairs of (title, company, location).                    *)
(*   StoreSpec  : Database.insert_job and mark_invalid_jobs called on the  *)
(*                jobs table, one statement after the other.              *)
(*   CycleSpec  : ScraperSystem.run: the initial scrape cycle and the     *)
(*                scheduled ones, each running the spider and             *)
(*                process_batch on the one pipeline, with failures and a  *)
(*                shutdown signal.                                        *)
(*   ThrottleSpec : HiringCafeSpider._throttle and                         *)
(*                VoyageEmbeddingService._rate_limit on a discrete clock,  *)
(*                the spider's one coroutine and the two coroutines that   *)
(*                share the embedding service.                             *)
(*   MergeSpec  : HybridSearch._merge_results on the result sets of the two*)
(*                store queries, called again after vector_similarity was  *)
(*                raised.                                                  *)
(*   SearchSpec : HybridSearch.search called by two coroutines, with its   *)
(*                result cache, its fallbacks and update_weights.          *)
(*   PrepareSpec : VoyageEmbeddingService._prepare_text applied to a       *)
(*                record.                                                  *)
(*   ParseSpec  : HiringCafeSpider._parse_job applied to a detail document,*)
(*                and the yield of scrape that follows.                    *)
(*   JanitorSpec : JanitorService.run_maintenance and its seven tasks,     *)
(*                each store statement returning or raising.               *)
(*   AdapterSpec : ScrapyPipelineAdapter.process_item as overlapping       *)
(*                coroutines on the shared buffer, and close_spider.       *)
(*   InstancesSpec : several HybridSearch objects and update_weights, the  *)
(*                weights of an instance being a reference to a dict.      *)
(*   EmbeddingWorkerSpec, EmbeddingWorkerFairSpec : EmbeddingWorker.start  *)
(*                on the rows stored without an embedding; the second with *)
(*                fairness of the worker's steps and of provider success.  *)
(*   BotWorkerSpec : worker_loop of the bot (apps/bot/src/worker.py) over  *)
(*                the waiting and the active list of the queue.            *)
(***************************************************************************)
EXTENDS Integers, Sequences, FiniteSets, TLC

(***************************************************************************)
(* Bounds of the model and constants of the program.                       *)
(***************************************************************************)
\* HiringCafeSpider(page_size=...), a constructor parameter
PageSize == 2
\* HiringCafeSpider(max_pages=...), a constructor parameter
MaxPages == 2
\* largest total the count endpoint reports in the model
MaxTotal == 2
\* identifiers 1..MaxKnown may be in the known_ids set handed to scrape
MaxKnown == 1
\* stop_after_attempt(5) on _search_page
SearchAttempts == 5
\* stop_after_attempt(3) on _fetch_job_detail
DetailAttempts == 3
\* stop_after_attempt(3) on _discover_build_id
DiscoverAttempts == 3
\* longest list handed to process_batch
MaxBatch == 2
\* errors counted up to which a store lookup of the pipeline may raise
MaxLookupFailures == 2
\* longest list handed to embed_jobs
MaxJobs == 4
\* largest max_batch_size of the embedding service
MaxChunk == 2
\* stop_after_attempt(5) on _embed_batch_request
EmbedAttempts == 5
\* _clean_job: `len(cleaned) < 100` rejects
MinCleanedLen == 100
\* ProcessedJob.job_title: min_length=5
MinTitleLen == 5
\* ProcessedJob.job_description: min_length=100
MinDescriptionLen == 100

\* min_interval = 60 / requests per minute, in clock ticks
MinInterval == 2
\* scrape cycles ScraperSystem.run starts
MaxCycles == 2
\* outbound requests the spider makes in one cycle
MaxCycleRequests == 2
\* insert_job calls of StoreSpec
MaxInserts == 3
\* longest title generate_fingerprint is applied to
MaxTitle == 2
\* is_duplicate calls the sequential caller makes
MaxDedupCalls == 4
\* the clock stops here
MaxTime == 5
\* requests a client starts in a run
MaxRequests == 3
\* asyncio.Semaphore(5) of VoyageEmbeddingService
SemaphorePermits == 5
\* longest result set handed to _merge_results
MaxResults == 2
\* largest limit handed to _merge_results
MaxLimit == 2
\* largest amount weights['vector_similarity'] is raised by
MaxRaise == 1
\* update_weights calls in a run
MaxWeightWrites == 1
\* the clock of the search cache stops here
MaxSearchTime == 1
\* HybridSearch(cache_ttl_seconds=...), in clock ticks
CacheTtl == 1
\* characters of a description that go into the embedding text (3000 in the
\* source, scaled)
DescriptionPrefix == 3
\* characters of the embedding text that are kept (30000 in the source, scaled)
TextBudget == 30
\* `if len(description) < 10` in _parse_job
ParserMinDescription == 10
\* ScrapedJob rejects a title of fewer characters
ScrapedJobMinTitle == 3
\* ScrapedJob rejects a description of fewer characters
ScrapedJobMinDescription == 50
\* JanitorService(cleanup_batch_size=...): rows one remove_invalid_jobs
\* statement deletes at most (500 by default, scaled)
CleanupBatchSize == 2
\* rows of the jobs table marked invalid when maintenance starts
MaxInvalidRows == 4
\* jobs get_jobs_for_validation returns at most
MaxValidated == 2
\* largest count a single cleanup statement reports
MaxRemoved == 1
\* self._batch_size (50, scaled)
AdapterBatchSize == 2
\* items the spider passes to process_item before it closes
MaxItems == 4
\* HybridSearch objects constructed
MaxInstances == 3
\* update_weights calls
MaxInstanceUpdates == 2
\* EmbeddingWorker(batch_size=...) (50, scaled)
WorkerBatchSize == 2
\* records stored without an embedding
MaxRecords == 3
\* job ids a producer adds to the waiting list
MaxQueued == 2

VARIABLES
    \* ---- HiringCafeSpider / run_hiring_cafe_spider ----
    sPc,              \* position of scrape / run_hiring_cafe_spider
    known,            \* known_ids handed to scrape
    build_id,         \* self._build_id (0 = None)
    discover_attempt, \* attempts made by the running _discover_build_id call
    total,            \* total returned by _get_total_count
    offset,           \* scrape: offset
    page_num,         \* scrape: page_num
    all_req_ids,      \* scrape: all_req_ids
    page_req_ids,     \* scrape: page_req_ids of the page being processed
    ridx,             \* index into page_req_ids of the id being fetched
    search_attempt,   \* attempts made by the running _search_page call
    detail_attempt,   \* attempts made by the running _fetch_job_detail call
    search_resp,      \* what the search page.goto in progress produced
    detail_resp,      \* what the detail page.goto in progress produced
    jobs_found,       \* self.jobs_found
    pages_scraped,    \* self.pages_scraped
    detail_fetches,   \* self.detail_fetches
    errors,           \* self.errors
    jobs_list,        \* run_hiring_cafe_spider: jobs_list
    handed,           \* the list passed to pipeline.process_batch
    batch_called,     \* whether process_batch was called
    \* ---- observation of the run (what the server saw) ----
    offsets_req,      \* offsets of the _search_page calls, in order
    pages_seen,       \* the card lists the server returned, in order
    search_requests,  \* search page.goto calls issued
    search_failures,  \* search page.goto calls the server did not answer ok
    refreshes,        \* _refresh_build_id calls
    stop_reason,      \* which exit of the pagination loop was taken
    server,           \* the server of this run: scripted mock or arbitrary
    \* ---- JobProcessingPipeline, DeduplicationMiddleware, Database ----
    task,             \* the running process_job / process_batch calls
    cache,            \* DeduplicationMiddleware._cache
    rows,             \* the jobs table, in insertion order
    metrics,          \* JobProcessingPipeline.metrics
    has_embedder,     \* whether self.embedder is set
    worker,           \* EmbeddingWorker.start: position and fetched ids
    \* ---- VoyageEmbeddingService.embed_jobs and the store loop after it ----
    ePc,              \* position of embed_jobs / of its caller
    ejobs,            \* the 'embedding' field of each job of the call
    max_batch_size,   \* self.max_batch_size
    chunk_start,      \* embed_batch: i
    embed_attempt,    \* attempts made by the running _embed_batch_request
    all_embeddings,   \* embed_batch: len(all_embeddings)
    total_requests,   \* self.total_requests
    embed_raised,     \* whether embed_jobs left by an exception
    chunk_log,        \* how each sub-batch of the call ended, in order
    estored,          \* jobs of the call handed to _store_job
    provider_calls,   \* the texts of each client.embed call, and its outcome
    evectors,         \* embed_batch: all_embeddings, by index of the text
    \* ---- _throttle / _rate_limit ----
    now,              \* the clock (time.monotonic / time.time)
    last_request_time,\* per client: _last_request_at / last_request_time
    gate,             \* per coroutine: position in the throttle, wake time
    starts,           \* per client: start times of its requests, in order
    \* ---- a sequential caller of DeduplicationMiddleware ----
    dedup,            \* the is_duplicate call in progress or last returned
    \* ---- generate_fingerprint applied to two triples ----
    fpc,              \* the two triples and the keys computed for them
    \* ---- statements on the jobs table ----
    ins,              \* the last insert_job call: its record and result
    \* ---- ScraperSystem.run ----
    running,          \* self.running
    cyc,              \* position of run / run_scrape_cycle, cycle counters
    \* ---- Merge ----
    mrg,              \* the result sets, limit and weights, and the rankings computed
    \* ---- Search ----
    hs,               \* the HybridSearch object: weights, cache, what it was built with
    sclock,           \* datetime.now()
    req,              \* per coroutine: its search call in progress or last returned
    \* ---- Prepare ----
    prep,             \* the call of _prepare_text: its record and the text it returned
    \* ---- Parse ----
    parse,            \* the call of _parse_job: its document, what it returned, the counters
    \* ---- Janitor ----
    jan,              \* run_maintenance: its position, the summary, and what the store did
    \* ---- Adapter ----
    adp,              \* ScrapyPipelineAdapter: its list objects, its calls, the batches processed
    \* ---- Instances ----
    hsi,              \* HybridSearch objects: the dict objects, and each instance's reference to its weights
    \* ---- EmbeddingWorker ----
    ew,               \* EmbeddingWorker.start: its position, the jobs fetched, and the records
    \* ---- BotWorker ----
    bw                \* worker_loop of the bot: its position, the two lists of the queue, the jobs

spiderVars ==
    <<sPc, known, build_id, discover_attempt, total, offset, page_num,
      all_req_ids, page_req_ids, ridx, search_attempt, detail_attempt,
      search_resp, detail_resp, jobs_found, pages_scraped, detail_fetches,
      errors, jobs_list, handed, batch_called, offsets_req, pages_seen,
      search_requests, search_failures, refreshes, stop_reason, server>>

pipeVars == <<task, cache, rows, metrics, has_embedder, worker>>

embedVars == <<ePc, ejobs, max_batch_size, chunk_start, embed_attempt,
               all_embeddings, total_requests, embed_raised, chunk_log,
               estored, provider_calls, evectors>>

throttleVars == <<now, last_request_time, gate, starts>>

dedupVars == <<dedup>>

fingerprintVars == <<fpc>>

storeVars == <<ins>>

cycleVars == <<running, cyc>>

mergeVars == <<mrg>>

searchVars == <<hs, sclock, req>>

prepareVars == <<prep>>

parseVars == <<parse>>

janitorVars == <<jan>>

adapterVars == <<adp>>

instancesVars == <<hsi>>

embeddingWorkerVars == <<ew>>

botWorkerVars == <<bw>>

vars == <<spiderVars, pipeVars, embedVars, throttleVars, dedupVars,
          fingerprintVars, storeVars,
    cycleVars,
    mergeVars,
    searchVars,
    prepareVars,
    parseVars,
    janitorVars,
    adapterVars,
    instancesVars,
    embeddingWorkerVars,
    botWorkerVars>>

nonSpiderVars == <<pipeVars, embedVars, throttleVars, dedupVars,
                   fingerprintVars, storeVars,
    cycleVars,
    mergeVars,
    searchVars,
    prepareVars,
    parseVars,
    janitorVars,
    adapterVars,
    instancesVars,
    embeddingWorkerVars,
    botWorkerVars>>

nonPipeVars == <<spiderVars, embedVars, throttleVars, dedupVars,
                 fingerprintVars, storeVars,
    cycleVars,
    mergeVars,
    searchVars,
    prepareVars,
    parseVars,
    janitorVars,
    adapterVars,
    instancesVars,
    embeddingWorkerVars,
    botWorkerVars>>

nonEmbedVars == <<spiderVars, pipeVars, throttleVars, dedupVars,
                  fingerprintVars, storeVars,
    cycleVars,
    mergeVars,
    searchVars,
    prepareVars,
    parseVars,
    janitorVars,
    adapterVars,
    instancesVars,
    embeddingWorkerVars,
    botWorkerVars>>

nonThrottleVars == <<spiderVars, pipeVars, embedVars, dedupVars,
                     fingerprintVars, storeVars,
    cycleVars,
    mergeVars,
    searchVars,
    prepareVars,
    parseVars,
    janitorVars,
    adapterVars,
    instancesVars,
    embeddingWorkerVars,
    botWorkerVars>>

\* what the sequential dedup caller leaves alone (it uses cache and rows)
nonDedupVars == <<spiderVars, embedVars, throttleVars, fingerprintVars,
                  storeVars, cycleVars, task, metrics, has_embedder,
                  worker,
    mergeVars,
    searchVars,
    prepareVars,
    parseVars,
    janitorVars,
    adapterVars,
    instancesVars,
    embeddingWorkerVars,
    botWorkerVars>>

nonFingerprintVars == <<spiderVars, pipeVars, embedVars, throttleVars,
                        dedupVars, storeVars, cycleVars,
    mergeVars,
    searchVars,
    prepareVars,
    parseVars,
    janitorVars,
    adapterVars,
    instancesVars,
    embeddingWorkerVars,
    botWorkerVars>>

\* what the statements of StoreSpec leave alone (they act on rows)
nonStoreVars == <<spiderVars, embedVars, throttleVars, dedupVars,
                  fingerprintVars, cycleVars, task, cache, metrics,
                  has_embedder, worker,
    mergeVars,
    searchVars,
    prepareVars,
    parseVars,
    janitorVars,
    adapterVars,
    instancesVars,
    embeddingWorkerVars,
    botWorkerVars>>

\* what ScraperSystem.run leaves alone besides the pipeline it drives
nonCycleVars == <<spiderVars, embedVars, throttleVars, dedupVars,
                  fingerprintVars, storeVars,
    mergeVars,
    searchVars,
    prepareVars,
    parseVars,
    janitorVars,
    adapterVars,
    instancesVars,
    embeddingWorkerVars,
    botWorkerVars>>

nonMergeVars == <<spiderVars,
    pipeVars,
    embedVars,
    throttleVars,
    dedupVars,
    fingerprintVars,
    storeVars,
    cycleVars,
    searchVars,
    prepareVars,
    parseVars,
    janitorVars,
    adapterVars,
    instancesVars,
    embeddingWorkerVars,
    botWorkerVars>>

nonSearchVars == <<spiderVars,
    pipeVars,
    embedVars,
    throttleVars,
    dedupVars,
    fingerprintVars,
    storeVars,
    cycleVars,
    mergeVars,
    prepareVars,
    parseVars,
    janitorVars,
    adapterVars,
    instancesVars,
    embeddingWorkerVars,
    botWorkerVars>>

nonPrepareVars == <<spiderVars,
    pipeVars,
    embedVars,
    throttleVars,
    dedupVars,
    fingerprintVars,
    storeVars,
    cycleVars,
    mergeVars,
    searchVars,
    parseVars,
    janitorVars,
    adapterVars,
    instancesVars,
    embeddingWorkerVars,
    botWorkerVars>>

nonParseVars == <<spiderVars,
    pipeVars,
    embedVars,
    throttleVars,
    dedupVars,
    fingerprintVars,
    storeVars,
    cycleVars,
    mergeVars,
    searchVars,
    prepareVars,
    janitorVars,
    adapterVars,
    instancesVars,
    embeddingWorkerVars,
    botWorkerVars>>

nonJanitorVars == <<spiderVars,
    pipeVars,
    embedVars,
    throttleVars,
    dedupVars,
    fingerprintVars,
    storeVars,
    cycleVars,
    mergeVars,
    searchVars,
    prepareVars,
    parseVars,
    adapterVars,
    instancesVars,
    embeddingWorkerVars,
    botWorkerVars>>

nonAdapterVars == <<spiderVars,
    pipeVars,
    embedVars,
    throttleVars,
    dedupVars,
    fingerprintVars,
    storeVars,
    cycleVars,
    mergeVars,
    searchVars,
    prepareVars,
    parseVars,
    janitorVars,
    instancesVars,
    embeddingWorkerVars,
    botWorkerVars>>

nonInstancesVars == <<spiderVars,
    pipeVars,
    embedVars,
    throttleVars,
    dedupVars,
    fingerprintVars,
    storeVars,
    cycleVars,
    mergeVars,
    searchVars,
    prepareVars,
    parseVars,
    janitorVars,
    adapterVars,
    embeddingWorkerVars,
    botWorkerVars>>

nonEmbeddingWorkerVars == <<spiderVars,
    pipeVars,
    embedVars,
    throttleVars,
    dedupVars,
    fingerprintVars,
    storeVars,
    cycleVars,
    mergeVars,
    searchVars,
    prepareVars,
    parseVars,
    janitorVars,
    adapterVars,
    instancesVars,
    botWorkerVars>>

nonBotWorkerVars == <<spiderVars,
    pipeVars,
    embedVars,
    throttleVars,
    dedupVars,
    fingerprintVars,
    storeVars,
    cycleVars,
    mergeVars,
    searchVars,
    prepareVars,
    parseVars,
    janitorVars,
    adapterVars,
    instancesVars,
    embeddingWorkerVars>>

NoResp == [status |-> "none", cards |-> <<>>]

\* the spider before run_hiring_cafe_spider is called
SpiderQuiet ==
    /\ sPc = "init"
    /\ known = {}
    /\ build_id = 0
    /\ discover_attempt = 0
    /\ total = 0
    /\ offset = 0
    /\ page_num = 0
    /\ all_req_ids = <<>>
    /\ page_req_ids = <<>>
    /\ ridx = 0
    /\ search_attempt = 0
    /\ detail_attempt = 0
    /\ search_resp = NoResp
    /\ detail_resp = "none"
    /\ jobs_found = 0
    /\ pages_scraped = 0
    /\ detail_fetches = 0
    /\ errors = 0
    /\ jobs_list = <<>>
    /\ handed = <<>>
    /\ batch_called = FALSE
    /\ offsets_req = <<>>
    /\ pages_seen = <<>>
    /\ search_requests = 0
    /\ search_failures = 0
    /\ refreshes = 0
    /\ stop_reason = "none"
    /\ server = [scripted |-> FALSE, full |-> 0]

\* the embedding service before embed_jobs is called
EmbedQuiet ==
    /\ ePc = "idle"
    /\ ejobs = <<>>
    /\ max_batch_size = 1
    /\ chunk_start = 0
    /\ embed_attempt = 0
    /\ all_embeddings = 0
    /\ total_requests = 0
    /\ embed_raised = FALSE
    /\ chunk_log = <<>>
    /\ estored = 0
    /\ provider_calls = <<>>
    /\ evectors = <<>>

\* ScraperSystem() has been constructed, run has not been called
CycleQuiet ==
    /\ running = TRUE
    /\ cyc = [pc |-> "setup", cycle |-> 0, requests |-> 0, jobs |-> <<>>,
              summaries |-> 0, spider_error |-> FALSE]

\* insert_job has not been called
StoreQuiet ==
    ins = [n |-> 0, conflict |-> FALSE, success |-> FALSE,
           job_id |-> [hex16 |-> <<>>], job_title |-> <<>>,
           company_name |-> <<>>, cleaned_len |-> 0]

NoTriple == [title |-> <<>>, company |-> <<>>, location |-> <<>>]

\* generate_fingerprint has not been called
FingerprintQuiet ==
    fpc = [pc |-> "input", a |-> NoTriple, b |-> NoTriple,
           dedup_keys |-> <<>>, models_keys |-> <<>>]

\* no is_duplicate call has been made by the sequential caller
DedupQuiet ==
    dedup = [pc |-> "idle", n |-> 0, title |-> <<>>, company |-> <<>>,
             location |-> <<>>, result |-> "none", cleared |-> {}]

\* the clients whose requests are throttled, and the coroutines that send
\* requests through each: scrape for the spider; process_batch and
\* EmbeddingWorker.start for the one VoyageEmbeddingService of ScraperSystem
Clients == {"spider", "voyage"}

Callers == {"scrape", "pipeline", "worker"}

ClientOf(c) == IF c = "scrape" THEN "spider" ELSE "voyage"

IdleGate == [pc |-> "idle", wake |-> 0]

\* no request has been made yet
ThrottleQuiet ==
    /\ now = MinInterval
    /\ last_request_time = [cl \in Clients |-> 0]
    /\ gate = [c \in Callers |-> IdleGate]
    /\ starts = [cl \in Clients |-> <<>>]

\* _merge_results has not been called
MergeQuiet ==
    mrg = [pc |-> "input", vector_results |-> <<>>, keyword_results |-> <<>>,
           limit |-> 0,
           weights |-> [vector_similarity |-> 0, keyword_match |-> 0,
                        freshness |-> 0],
           before |-> <<>>, after |-> <<>>]

\* the coroutines that call HybridSearch.search, once each
Searches == {"s1", "s2"}

IdleSearch ==
    [pc |-> "idle", query |-> <<>>, filters |-> <<>>, limit |-> 0,
     use_cache |-> FALSE, cache_key |-> <<>>, query_embedding |-> FALSE,
     embed_failed |-> FALSE, keyword_failed |-> FALSE,
     found_expired |-> FALSE, how |-> "none", result |-> <<>>,
     ranked_at_write |-> 0, in_flight_at_write |-> FALSE, hit |-> <<>>]

\* HybridSearch(database, embedder) has been constructed, search has not
\* been called
SearchQuiet ==
    /\ hs = [weights |-> [vector_similarity |-> 0, keyword_match |-> 0,
                          freshness |-> 0],
             cache |-> {}, writes |-> 0, has_embedder |-> FALSE,
             has_asyncio_coroutine |-> FALSE]
    /\ sclock = 0
    /\ req = [r \in Searches |-> IdleSearch]

\* _prepare_text has not been called
NoJobFields ==
    [job_title |-> <<>>, skills_required |-> [kind |-> "list", value |-> <<>>],
     job_description |-> <<>>, industry |-> <<>>, company_name |-> <<>>]

PrepareQuiet == prep = [pc |-> "input", job |-> NoJobFields, text |-> <<>>]

\* a dict of the detail document with none of the keys _parse_job reads.
\* A text key that is missing, None or '' is the empty text: _parse_job
\* reads every text key with `data.get(key) or ...`
NoFields ==
    [title |-> <<>>, requisition_id |-> <<>>, description |-> <<>>,
     description_clean |-> <<>>, random |-> FALSE]

NoDict == [type |-> "absent", items |-> NoFields]

\* {}
EmptyDocument ==
    [page_props |-> "absent", data |-> NoFields, job_information |-> NoDict]

\* _parse_job has not been called
ParseQuiet ==
    parse = [pc |-> "input", raw |-> EmptyDocument, returned |-> "none",
             raised |-> FALSE, errors |-> 0, jobs_found |-> 0,
             yielded |-> <<>>]

\* stats = {'validated': 0, 'valid': 0, 'invalid': 0}
ZeroStats == [validated |-> 0, valid |-> 0, invalid |-> 0]

\* the keys of summary['tasks'] that hold a count
CountTasks ==
    {"expired_removed", "old_removed", "invalid_removed",
     "duplicates_removed", "orphan_embeddings_cleaned"}

\* run_maintenance has not been called
JanitorQuiet ==
    jan = [pc |-> "idle", url_validation |-> ZeroStats,
           counts |-> [t \in CountTasks |-> 0], descriptions_sanitized |-> FALSE,
           success |-> "unset", ran |-> <<>>, failed |-> {},
           invalid_rows |-> 0, invalid_deleted |-> 0, checked |-> 0]

\* a process_item or close_spider call that has not begun
NewCall == [pc |-> "new", jobs |-> 0, idx |-> 0, no |-> 0]

\* ScrapyPipelineAdapter.__init__: self._batch = [] is list object 1
AdapterQuiet ==
    adp = [n |-> 0, lists |-> << <<>> >>, batch |-> 1,
           calls |-> [c \in 0..MaxItems |-> NewCall], batches |-> <<>>]

\* HybridSearch.DEFAULT_WEIGHTS
DEFAULT_WEIGHTS ==
    [vector_similarity |-> 6, keyword_match |-> 3, freshness |-> 1]

\* no HybridSearch has been constructed; dict object 1 is the class
\* attribute HybridSearch.DEFAULT_WEIGHTS
InstancesQuiet ==
    hsi = [dicts |-> <<DEFAULT_WEIGHTS>>, objs |-> <<>>, updates |-> 0]

\* the worker has not started and the backlog is empty
EmbeddingWorkerQuiet ==
    ew = [pc |-> "stopped", jobs |-> {}, updates |-> {},
          table |-> [r \in 1..MaxRecords |-> "absent"],
          bad |-> [r \in 1..MaxRecords |-> FALSE]]

\* the notification worker has not started and the queue is empty
BotWorkerQuiet ==
    bw = [pc |-> "stopped", waiting |-> <<>>, active |-> <<>>, job_id |-> 0,
          raw_data |-> "none", added |-> 0,
          processed |-> [j \in 1..MaxQueued |-> 0],
          pops |-> [j \in 1..MaxQueued |-> 0],
          data |-> [j \in 1..MaxQueued |-> "none"]]

(***************************************************************************)
(* JobProcessingPipeline: candidates, fingerprints, the store.             *)
(***************************************************************************)
\* The coroutines that call the pipeline, each making one call of
\* process_job or process_batch, in this order or overlapping.
TaskOrder == <<"t1", "t2">>

Tasks == {TaskOrder[i] : i \in DOMAIN TaskOrder}

\* JobListing objects the spiders may hand over. Strings are sequences of
\* characters; cleaned_len is the length of the cleaned description.
Candidates ==
    { [job_title |-> <<"S", "r", ".", "D", "e", "v">>,
       company_name |-> <<"A", "c", "m", "e">>,
       location |-> <<"S", "F", ",", " ", "C", "A">>,
       cleaned_len |-> 100, link |-> "https"],
      [job_title |-> <<"D", "e", "v">>,
       company_name |-> <<"A", "c", "m", "e">>,
       location |-> <<>>,
       cleaned_len |-> 100, link |-> "https"],
      [job_title |-> <<"(", "D", "E", "V", ")">>,
       company_name |-> <<"A", "C", "M", "E", ".">>,
       location |-> <<>>,
       cleaned_len |-> 100, link |-> "https"],
      [job_title |-> <<"D", "e", "v", "O", "p", "s">>,
       company_name |-> <<"A", "c", "m", "e">>,
       location |-> <<>>,
       cleaned_len |-> 99, link |-> "https"] }

\* the lists of 1..MaxBatch candidates
Batches == UNION { [1..n -> Candidates] : n \in 1..MaxBatch }

\* ---- str methods and re.sub as used by the normalizers ----
UpperToLower ==
    ("A" :> "a") @@ ("C" :> "c") @@ ("D" :> "d") @@ ("E" :> "e") @@
    ("F" :> "f") @@ ("M" :> "m") @@ ("O" :> "o") @@ ("S" :> "s") @@
    ("V" :> "v")

\* \w of the characters that occur
WordChars ==
    DOMAIN UpperToLower \cup {"a", "c", "d", "e", "f", "m", "o", "p", "r",
                              "s", "v"}

\* \s of the characters that occur
Whitespace == {" ", "\t", "\n"}

lower(s) ==
    [i \in 1..Len(s) |->
        IF s[i] \in DOMAIN UpperToLower THEN UpperToLower[s[i]] ELSE s[i]]

RECURSIVE lstrip(_)
lstrip(s) ==
    IF s # <<>> /\ Head(s) \in Whitespace THEN lstrip(Tail(s)) ELSE s

Reverse(s) == [i \in 1..Len(s) |-> s[Len(s) + 1 - i]]

strip(s) == Reverse(lstrip(Reverse(lstrip(s))))

\* re.sub(r'[^\w\s]', ' ', s)
sub_non_word(s) ==
    [i \in 1..Len(s) |->
        IF s[i] \in WordChars \cup Whitespace THEN s[i] ELSE " "]

RECURSIVE SplitFrom(_, _, _)
SplitFrom(s, cur, acc) ==
    IF s = <<>>
    THEN IF cur = <<>> THEN acc ELSE Append(acc, cur)
    ELSE IF Head(s) \in Whitespace
         THEN SplitFrom(Tail(s), <<>>,
                        IF cur = <<>> THEN acc ELSE Append(acc, cur))
         ELSE SplitFrom(Tail(s), Append(cur, Head(s)), acc)

\* s.split()
split(s) == SplitFrom(s, <<>>, <<>>)

\* ' '.join(words)
RECURSIVE join(_)
join(words) ==
    IF words = <<>> THEN <<>>
    ELSE IF Len(words) = 1 THEN words[1]
         ELSE words[1] \o <<" ">> \o join(Tail(words))

normalize_location(location) ==
    IF location = <<>> THEN <<>>
    ELSE join(split(sub_non_word(lower(location))))

normalize_title(title) ==
    IF title = <<>> THEN <<>>
    ELSE join(split(sub_non_word(strip(lower(title)))))

normalize_company(company) ==
    IF company = <<>> THEN <<>>
    ELSE join(split(sub_non_word(strip(lower(company)))))

\* hashlib.sha256(content).hexdigest(): the digest stands for its content
\* (no two contents of the model collide).
sha256(content) == [sha256 |-> content]

generate_fingerprint(title, company, location) ==
    sha256(normalize_title(title) \o <<"|">> \o normalize_company(company)
           \o <<"|">> \o normalize_location(location))

\* generate_fingerprint of every candidate, computed once
FingerprintOf ==
    [job \in Candidates |->
        generate_fingerprint(job.job_title, job.company_name, job.location)]

Fingerprint(job) == FingerprintOf[job]

\* _deduplicate_job: job_id = fingerprint[:16]; the 16-digit prefix stands
\* for the digest it was cut from.
job_id_of(fingerprint) == [hex16 |-> fingerprint.sha256]

NoFingerprint == sha256(<<>>)

\* _clean_job: the candidate survives cleaning
clean_ok(job) == job.cleaned_len >= MinCleanedLen

\* ProcessedJob(...) in _store_job: the field constraints and the
\* strip_whitespace validator of job_title
ProcessedJobValid(data) ==
    /\ Len(join(split(data.job.job_title))) >= MinTitleLen
    /\ data.job.cleaned_len >= MinDescriptionLen
    /\ data.job.link \in {"http", "https"}

\* ---- the jobs table; updated_by tells which statement last set the
\* row's updated_at ----
NewRow(rs, data) ==
    [id |-> Len(rs) + 1,
     job_id |-> data.job_id,
     job_title |-> data.job.job_title,
     company_name |-> data.job.company_name,
     cleaned_len |-> data.job.cleaned_len,
     embedding |-> data.embedding,
     is_valid |-> TRUE,
     updated_by |-> "insert"]

HasJobId(rs, jid) == \E i \in 1..Len(rs) : rs[i].job_id = jid

\* Database.insert_job: INSERT ... ON CONFLICT (job_id) DO UPDATE SET
\* job_title, company_name, job_description, salary_range, updated_at
insert_job_without_on_conflict(rs, data) == Append(rs, NewRow(rs, data))
insert_job(rs, data) ==
    IF HasJobId(rs, data.job_id)
    THEN [i \in 1..Len(rs) |->
            IF rs[i].job_id = data.job_id
            THEN [rs[i] EXCEPT !.job_title = data.job.job_title,
                               !.company_name = data.job.company_name,
                               !.cleaned_len = data.job.cleaned_len,
                               !.updated_by = "on_conflict"]
            ELSE rs[i]]
    ELSE Append(rs, NewRow(rs, data))

\* Database.fingerprint_exists, which deduplication.py calls: a stored row
\* carries the key of this fingerprint.
fingerprint_exists(rs, fingerprint) == HasJobId(rs, job_id_of(fingerprint))

\* Database.get_jobs_without_embeddings:
\* WHERE embedding IS NULL AND is_valid = TRUE
get_jobs_without_embeddings_is_not_null(rs) ==
    {i \in 1..Len(rs) : rs[i].embedding /\ rs[i].is_valid}
get_jobs_without_embeddings(rs) ==
    {i \in 1..Len(rs) : ~rs[i].embedding /\ rs[i].is_valid}

\* Database.update_embeddings_batch
update_embeddings_batch(rs, ids) ==
    [i \in 1..Len(rs) |->
        IF rs[i].id \in ids
        THEN [rs[i] EXCEPT !.embedding = TRUE, !.updated_by = "worker"]
        ELSE rs[i]]

\* ---- JobProcessingPipeline state ----
ZeroMetrics ==
    [jobs_received |-> 0, jobs_cleaned |-> 0, duplicates_skipped |-> 0,
     jobs_embedded |-> 0, jobs_stored |-> 0, errors |-> 0]

IdleTask ==
    [pc |-> "idle", kind |-> "none", batch |-> <<>>, idx |-> 0,
     fp |-> NoFingerprint, verdicts |-> <<>>, to_embed |-> <<>>,
     embedded |-> {}, sidx |-> 0, stored_count |-> 0,
     solo |-> FALSE, fresh |-> {}, dup0 |-> 0]

\* a call that has returned
DoneTask == [IdleTask EXCEPT !.pc = "done"]

IdleWorker == [pc |-> "sleep", ids |-> {}]

PipeQuiet ==
    /\ task = [t \in Tasks |-> IdleTask]
    /\ cache = {}
    /\ rows = <<>>
    /\ metrics = ZeroMetrics
    /\ has_embedder = TRUE
    /\ worker = IdleWorker

\* JobProcessingPipeline.__init__ on an empty jobs table;
\* ScraperSystem.setup builds the embedding service only with an API key.
PipeInit ==
    /\ task = [t \in Tasks |-> IdleTask]
    /\ cache = {}
    /\ rows = <<>>
    /\ metrics = ZeroMetrics
    /\ has_embedder \in BOOLEAN
    /\ worker = IdleWorker
    /\ SpiderQuiet
    /\ EmbedQuiet
    /\ ThrottleQuiet
    /\ DedupQuiet
    /\ FingerprintQuiet
    /\ StoreQuiet
    /\ CycleQuiet
    /\ MergeQuiet
    /\ SearchQuiet
    /\ PrepareQuiet
    /\ ParseQuiet
    /\ JanitorQuiet
    /\ AdapterQuiet
    /\ InstancesQuiet
    /\ EmbeddingWorkerQuiet
    /\ BotWorkerQuiet

\* what _deduplicate_job returns for the candidate at tr.idx
JobData(tr, fingerprint) ==
    [pos |-> tr.idx, job |-> tr.batch[tr.idx], fingerprint |-> fingerprint,
     job_id |-> job_id_of(fingerprint), embedding |-> FALSE]

\* process_batch: `if not deduped: continue` / jobs_to_embed.append(deduped)
\* (in process_job: `if not deduped: return False`)
ToEmbed_ignoring_verdict(jobs_to_embed, data, verdict) ==
    Append(jobs_to_embed, data)
ToEmbed(jobs_to_embed, data, verdict) ==
    IF verdict = "new" THEN Append(jobs_to_embed, data) ELSE jobs_to_embed

\* the candidate at tr.idx leaves the loop body with this verdict
Decide(tr, fingerprint, verdict) ==
    [tr EXCEPT !.verdicts = Append(@, verdict),
               !.to_embed = IF verdict = "rejected" THEN @
                            ELSE ToEmbed(@, JobData(tr, fingerprint), verdict),
               !.fp = fingerprint,
               !.idx = @ + 1]

\* The code a call runs without suspending: the loop of process_batch (the
\* one candidate of process_job) from the candidate at tr.idx up to the
\* next `await self.db.fingerprint_exists`, or past the loop to the await
\* of embed_jobs / insert_job, or to the return (`return 0`, `return
\* False`), which leaves nothing of the call behind.
RECURSIVE RunLoop(_, _, _, _)
RunLoop(tr, m, cacheNow, embedder) ==
    IF tr.idx > Len(tr.batch)
    THEN [t |-> IF tr.to_embed = <<>> THEN DoneTask
                ELSE [tr EXCEPT !.pc = IF embedder THEN "embed" ELSE "store",
                                !.sidx = 1],
          m |-> m]
    ELSE LET job == tr.batch[tr.idx]
             m1 == [m EXCEPT !.jobs_received = @ + 1]
             m2 == [m1 EXCEPT !.jobs_cleaned = @ + 1]
             fingerprint == Fingerprint(job)
         IN  IF ~clean_ok(job)
             THEN RunLoop(Decide(tr, NoFingerprint, "rejected"), m1,
                          cacheNow, embedder)
             ELSE IF fingerprint \in cacheNow
                  THEN RunLoop(Decide(tr, fingerprint, "dup"),
                               [m2 EXCEPT !.duplicates_skipped = @ + 1],
                               cacheNow, embedder)
                  ELSE [t |-> [tr EXCEPT !.pc = "db_check",
                                         !.fp = fingerprint],
                        m |-> m2]

\* a call of process_job (one candidate) or process_batch (a list) begins
FirstFree(t) ==
    \E i \in DOMAIN TaskOrder :
        /\ TaskOrder[i] = t
        /\ task[t].pc = "idle"
        /\ \A j \in 1..(i - 1) : task[TaskOrder[j]].pc # "idle"

Running(t) == task[t].pc \notin {"idle", "done"}

Begin(t, kind, batch) ==
    /\ LET tr == [IdleTask EXCEPT
                    !.kind = kind, !.batch = batch, !.idx = 1,
                    !.solo = \A u \in Tasks \ {t} : ~Running(u),
                    !.fresh = {f \in {Fingerprint(batch[i]) :
                                           i \in 1..Len(batch)} :
                                  ~fingerprint_exists(rows, f)},
                    !.dup0 = metrics.duplicates_skipped]
           r == RunLoop(tr, metrics, cache, has_embedder)
       IN  /\ task' = [u \in Tasks |->
                         IF u = t THEN r.t
                         ELSE [task[u] EXCEPT !.solo = FALSE]]
           /\ metrics' = r.m
    /\ UNCHANGED <<cache, rows, has_embedder, worker>>
    /\ UNCHANGED nonPipeVars

process_job(t) ==
    /\ FirstFree(t)
    /\ \E job \in Candidates : Begin(t, "job", <<job>>)

process_batch(t) ==
    /\ FirstFree(t)
    /\ \E jobs \in Batches : Begin(t, "batch", jobs)

\* _deduplicate_job: `except Exception: self.metrics['errors'] += 1;
\* return None`
OnDedupException_silent(m) == m
OnDedupException(m) == [m EXCEPT !.errors = @ + 1]

\* `await self.db.fingerprint_exists(fingerprint)` of call t answers or
\* raises; DeduplicationMiddleware.is_duplicate resumes, _deduplicate_job
\* and the caller go on to the next suspension.
DedupResumes(t, raised) ==
    LET tr == task[t]
        exists == ~raised /\ fingerprint_exists(rows, tr.fp)
        newCache == IF exists \/ raised THEN cache ELSE cache \cup {tr.fp}
        m1 == IF raised THEN OnDedupException(metrics)
              ELSE IF exists
              THEN [metrics EXCEPT !.duplicates_skipped = @ + 1]
              ELSE metrics
        tr1 == Decide(tr, tr.fp, IF raised THEN "failed"
                                 ELSE IF exists THEN "dup" ELSE "new")
        r == RunLoop(tr1, m1, newCache, has_embedder)
    IN  /\ cache' = newCache
        /\ task' = [task EXCEPT ![t] = r.t]
        /\ metrics' = r.m
        /\ UNCHANGED <<rows, has_embedder, worker>>
        /\ UNCHANGED nonPipeVars

\* the store lookup answers
is_duplicate(t) ==
    /\ task[t].pc = "db_check"
    /\ DedupResumes(t, FALSE)

\* the store lookup raises, while fewer than MaxLookupFailures errors have
\* been counted
is_duplicate_raises(t) ==
    /\ task[t].pc = "db_check"
    /\ metrics.errors < MaxLookupFailures
    /\ DedupResumes(t, TRUE)

\* embed_jobs returns to _embed_job / process_batch: every job of the call
\* carries an embedding, or none does.
embed_jobs(t) ==
    /\ task[t].pc = "embed"
    /\ \E ok \in BOOLEAN :
         LET tr == task[t]
             out == [i \in 1..Len(tr.to_embed) |->
                        [tr.to_embed[i] EXCEPT !.embedding = ok]]
         IN  /\ task' = [task EXCEPT ![t] =
                           [tr EXCEPT !.to_embed = out,
                                      !.embedded =
                                          {out[i].pos : i \in 1..Len(out)},
                                      !.pc = "store"]]
             /\ metrics' = [metrics EXCEPT !.jobs_embedded =
                              @ + (IF ok THEN Len(out) ELSE 0)]
    /\ UNCHANGED <<cache, rows, has_embedder, worker>>
    /\ UNCHANGED nonPipeVars

\* _store_job for the next job of the call
store_job(t) ==
    /\ task[t].pc = "store"
    /\ LET tr == task[t]
           data == tr.to_embed[tr.sidx]
           valid == ProcessedJobValid(data)
           last == tr.sidx = Len(tr.to_embed)
       IN  /\ rows' = IF valid THEN insert_job(rows, data) ELSE rows
           /\ metrics' = IF valid
                         THEN [metrics EXCEPT !.jobs_stored = @ + 1]
                         ELSE [metrics EXCEPT !.errors = @ + 1]
           /\ task' = [task EXCEPT ![t] =
                         IF last THEN DoneTask
                         ELSE [tr EXCEPT !.sidx = @ + 1,
                                         !.stored_count =
                                             @ + (IF valid THEN 1 ELSE 0)]]
    /\ UNCHANGED <<cache, has_embedder, worker>>
    /\ UNCHANGED nonPipeVars

\* JobProcessingPipeline.reset_metrics, called between pipeline calls
reset_metrics ==
    /\ \A t \in Tasks : ~Running(t)
    /\ metrics # ZeroMetrics \/ cache # {}
    /\ metrics' = ZeroMetrics
    /\ cache' = {}
    /\ UNCHANGED <<task, rows, has_embedder, worker>>
    /\ UNCHANGED nonPipeVars

\* EmbeddingWorker.start: get_jobs_without_embeddings, then embed_jobs
WorkerFetch ==
    /\ has_embedder
    /\ worker.pc = "sleep"
    /\ get_jobs_without_embeddings(rows) # {}
    /\ worker' = [pc |-> "embed", ids |-> get_jobs_without_embeddings(rows)]
    /\ UNCHANGED <<task, cache, rows, metrics, has_embedder>>
    /\ UNCHANGED nonPipeVars

\* EmbeddingWorker.start: embed_jobs returns, update_embeddings_batch
WorkerUpdate ==
    /\ worker.pc = "embed"
    /\ \E ok \in BOOLEAN :
         rows' = IF ok THEN update_embeddings_batch(rows, worker.ids)
                 ELSE rows
    /\ worker' = IdleWorker
    /\ UNCHANGED <<task, cache, metrics, has_embedder>>
    /\ UNCHANGED nonPipeVars

PipeNext ==
    \/ \E t \in Tasks : process_job(t)
    \/ \E t \in Tasks : process_batch(t)
    \/ \E t \in Tasks : is_duplicate(t)
    \/ \E t \in Tasks : embed_jobs(t)
    \/ \E t \in Tasks : store_job(t)
    \/ reset_metrics
    \/ WorkerFetch
    \/ WorkerUpdate

PipeSpec == PipeInit /\ [][PipeNext]_vars

\* a call begins after the calls before it have returned
next_process_job(t) ==
    /\ \A u \in Tasks : ~Running(u)
    /\ process_job(t)

next_process_batch(t) ==
    /\ \A u \in Tasks : ~Running(u)
    /\ process_batch(t)

\* a sequence of pipeline calls, with a store lookup that answers or raises
PipeFaultNext ==
    \/ \E t \in Tasks : next_process_job(t)
    \/ \E t \in Tasks : next_process_batch(t)
    \/ \E t \in Tasks : is_duplicate(t)
    \/ \E t \in Tasks : is_duplicate_raises(t)
    \/ \E t \in Tasks : embed_jobs(t)
    \/ \E t \in Tasks : store_job(t)
    \/ reset_metrics

PipeFaultSpec == PipeInit /\ [][PipeFaultNext]_vars


(***************************************************************************)
(* The server.                                                             *)
(***************************************************************************)
\* A response of a goto that is not in progress.

\* The cards of a page with h hits at offset off: identifiers off+1 .. off+h.
\* A card without requisition_id / objectID is written 0.
Cards(off, h) == [j \in 1..h |-> off + j]

PageChoices(off) ==
    {Cards(off, h) : h \in 0..PageSize}
    \cup {[j \in 1..PageSize |-> IF j = 1 THEN 0 ELSE off + j]}

\* The servers of the model: an arbitrary one, and the mock search endpoints
\* that report no total, never fail a search request and return `full` full
\* pages of identifiers not in known_ids followed by empty pages.
Servers ==
    {[scripted |-> FALSE, full |-> 0]}
    \cup {[scripted |-> TRUE, full |-> k] : k \in 0..(MaxPages - 1)}

MockPage(off, k) ==
    IF off < k * PageSize THEN [j \in 1..PageSize |-> MaxKnown + off + j]
    ELSE <<>>

Totals(srv) == IF srv.scripted THEN {0} ELSE 0..MaxTotal

\* What one search page.goto can produce: a JSON page, a 429, a transient
\* failure (navigation error, timeout, non-ok status, unparsable body), or
\* a failure that is no PlaywrightError / TimeoutError.
SearchResponses(srv, off) ==
    IF srv.scripted
    THEN {[status |-> "ok", cards |-> MockPage(off, srv.full)]}
    ELSE {[status |-> "ok", cards |-> c] : c \in PageChoices(off)}
         \cup {[status |-> st, cards |-> <<>>] :
                  st \in {"rate_limited", "transient", "fatal"}}

\* What one detail page.goto can produce: an ok page whose job parses, an
\* ok page without a job (no __NEXT_DATA__, no title or identifier), an ok
\* page whose parsing raises, an exception of page.goto (network error,
\* timeout), a 429, a 404, another non-ok status.
DetailResponses == {"ok_job", "ok_no_job", "ok_parse_error", "goto_exception",
                    "rate_limited", "not_found", "server_error"}

(***************************************************************************)
(* HiringCafeSpider                                                        *)
(***************************************************************************)
\* _extract_requisition_id + the known filter of scrape
\* (`if req_id and req_id not in known`)
NewIds_ignoring_known(cards, knownIds) ==
    SelectSeq(cards, LAMBDA req_id : req_id # 0)
RECURSIVE NewIds(_, _)
NewIds(cards, knownIds) ==
    IF cards = <<>> THEN <<>>
    ELSE LET req_id == Head(cards)
             rest == NewIds(Tail(cards), knownIds)
         IN IF req_id # 0 /\ req_id \notin knownIds
            THEN <<req_id>> \o rest
            ELSE rest

\* the while condition of scrape
LoopCond_off_by_one(pn) == pn <= MaxPages
LoopCond(pn) == pn < MaxPages

\* the `total and offset >= total` exit of scrape
ReachedTotal_no_zero_guard(tot, off) == off >= tot
ReachedTotal(tot, off) == tot # 0 /\ off >= tot

\* tenacity: the call is given up once `attempt` attempts have failed
SearchExhausted(attempt) == attempt >= SearchAttempts
DetailExhausted(attempt) == attempt >= DetailAttempts
DiscoverExhausted(attempt) == attempt >= DiscoverAttempts

SpiderInit ==
    /\ sPc = "init"
    /\ known \in {{}, 1..MaxKnown}
    /\ build_id = 0
    /\ discover_attempt = 0
    /\ total = 0
    /\ offset = 0
    /\ page_num = 0
    /\ all_req_ids = <<>>
    /\ page_req_ids = <<>>
    /\ ridx = 0
    /\ search_attempt = 0
    /\ detail_attempt = 0
    /\ search_resp = NoResp
    /\ detail_resp = "none"
    /\ jobs_found = 0
    /\ pages_scraped = 0
    /\ detail_fetches = 0
    /\ errors = 0
    /\ jobs_list = <<>>
    /\ handed = <<>>
    /\ batch_called = FALSE
    /\ offsets_req = <<>>
    /\ pages_seen = <<>>
    /\ search_requests = 0
    /\ search_failures = 0
    /\ refreshes = 0
    /\ stop_reason = "none"
    /\ server \in Servers
    /\ PipeQuiet
    /\ EmbedQuiet
    /\ ThrottleQuiet
    /\ DedupQuiet
    /\ FingerprintQuiet
    /\ StoreQuiet
    /\ CycleQuiet
    /\ MergeQuiet
    /\ SearchQuiet
    /\ PrepareQuiet
    /\ ParseQuiet
    /\ JanitorQuiet
    /\ AdapterQuiet
    /\ InstancesQuiet
    /\ EmbeddingWorkerQuiet
    /\ BotWorkerQuiet

\* scrape, step 1: _ensure_build_id -> _discover_build_id, one attempt.
\* A PlaywrightError is retried up to DiscoverAttempts; a missing buildId
\* (ValueError) is not retried. Either failure leaves scrape by exception.
EnsureBuildId ==
    /\ UNCHANGED nonSpiderVars
    /\ sPc = "init"
    /\ \E outcome \in {"ok", "transient", "no_match"} :
         CASE outcome = "ok" ->
                /\ build_id' = 1
                /\ discover_attempt' = 0
                /\ sPc' = "count"
           [] outcome = "transient" ->
                /\ build_id' = build_id
                /\ IF DiscoverExhausted(discover_attempt + 1)
                   THEN /\ sPc' = "raised"
                        /\ discover_attempt' = 0
                   ELSE /\ sPc' = "init"
                        /\ discover_attempt' = discover_attempt + 1
           [] OTHER ->
                /\ build_id' = build_id
                /\ discover_attempt' = 0
                /\ sPc' = "raised"
    /\ UNCHANGED <<known, total, offset, page_num, all_req_ids, page_req_ids,
                   ridx, search_attempt, detail_attempt, search_resp,
                   detail_resp, jobs_found, pages_scraped, detail_fetches,
                   errors, jobs_list, handed, batch_called, offsets_req,
                   pages_seen, search_requests, search_failures, refreshes,
                   stop_reason, server>>

\* scrape, step 2: _get_total_count (0 when the endpoint fails), then the
\* first test of the while condition.
GetTotalCount ==
    /\ UNCHANGED nonSpiderVars
    /\ sPc = "count"
    /\ \E t \in Totals(server) : total' = t
    /\ IF LoopCond(page_num)
       THEN /\ sPc' = "search"
            /\ stop_reason' = stop_reason
       ELSE /\ sPc' = "done"
            /\ stop_reason' = "ceiling"
    /\ UNCHANGED <<known, build_id, discover_attempt, offset, page_num,
                   all_req_ids, page_req_ids, ridx, search_attempt,
                   detail_attempt, search_resp, detail_resp, jobs_found,
                   pages_scraped, detail_fetches, errors, jobs_list, handed,
                   batch_called, offsets_req, pages_seen, search_requests,
                   search_failures,
                   refreshes, server>>

\* _search_page(offset): one attempt issues page.goto and the server
\* answers.
SearchGoto ==
    /\ UNCHANGED nonSpiderVars
    /\ sPc = "search"
    /\ search_requests' = search_requests + 1
    /\ search_attempt' = search_attempt + 1
    /\ offsets_req' = IF search_attempt = 0 THEN Append(offsets_req, offset)
                      ELSE offsets_req
    /\ \E r \in SearchResponses(server, offset) : search_resp' = r
    /\ pages_seen' = IF search_resp'.status = "ok"
                     THEN Append(pages_seen, search_resp'.cards)
                     ELSE pages_seen
    /\ search_failures' = IF search_resp'.status = "ok" THEN search_failures
                          ELSE search_failures + 1
    /\ sPc' = "search_handle"
    /\ UNCHANGED <<known, build_id, discover_attempt, total, offset, page_num,
                   all_req_ids, page_req_ids, ridx, detail_attempt,
                   detail_resp, jobs_found, pages_scraped, detail_fetches,
                   errors, jobs_list, handed, batch_called, refreshes,
                   stop_reason, server>>

\* What _search_page does with a response:
\*   "return" the parsed page goes back to scrape,
\*   "retry"  PlaywrightError, which tenacity retries (429, non-ok status,
\*            navigation error or timeout, unparsable body),
\*   "raise"  any other exception, which tenacity lets through.
SearchDisposition(status) ==
    CASE status = "ok" -> "return"
      [] status \in {"rate_limited", "transient"} -> "retry"
      [] OTHER -> "raise"

\* scrape's `except Exception` around _search_page: the error is counted
\* and the loop is left by `break`, so scrape ends normally.
ScrapeOnSearchRaise_propagates == "raised"
ScrapeOnSearchRaise == "done"

\* The rest of the attempt and, when _search_page is over, the try/except
\* and the card loop of scrape. The while loop is left by `break` when the
\* call raises (RetryError after the last attempt, or at once for an
\* exception tenacity does not retry) and when the page has no hits.
SearchHandle ==
    /\ UNCHANGED nonSpiderVars
    /\ sPc = "search_handle"
    /\ LET d == SearchDisposition(search_resp.status)
           cards == search_resp.cards
           ids == NewIds(cards, known)
       IN
       CASE d = "return" ->
              /\ search_attempt' = 0
              /\ errors' = errors
              /\ IF cards = <<>>
                 THEN /\ sPc' = "done"
                      /\ stop_reason' = "empty"
                      /\ UNCHANGED <<page_req_ids, all_req_ids, ridx>>
                 ELSE /\ page_req_ids' = ids
                      /\ all_req_ids' = all_req_ids \o ids
                      /\ ridx' = IF ids = <<>> THEN 0 ELSE 1
                      /\ sPc' = IF ids = <<>> THEN "page_end" ELSE "detail"
                      /\ stop_reason' = stop_reason
         [] d = "retry" ->
              /\ IF SearchExhausted(search_attempt)
                 THEN /\ errors' = errors + 1
                      /\ sPc' = ScrapeOnSearchRaise
                      /\ stop_reason' = "search_exhausted"
                      /\ search_attempt' = 0
                 ELSE /\ errors' = errors
                      /\ sPc' = "search"
                      /\ stop_reason' = stop_reason
                      /\ search_attempt' = search_attempt
              /\ UNCHANGED <<page_req_ids, all_req_ids, ridx>>
         [] OTHER ->
              /\ errors' = errors + 1
              /\ sPc' = ScrapeOnSearchRaise
              /\ stop_reason' = "search_error"
              /\ search_attempt' = 0
              /\ UNCHANGED <<page_req_ids, all_req_ids, ridx>>
    /\ search_resp' = NoResp
    /\ UNCHANGED <<known, build_id, discover_attempt, total, offset, page_num,
                   detail_attempt, detail_resp, jobs_found, pages_scraped,
                   detail_fetches, jobs_list, handed, batch_called,
                   offsets_req, pages_seen, search_requests, search_failures,
                   refreshes, server>>

\* _fetch_job_detail(rid): one attempt issues page.goto for the current
\* identifier and the server answers.
DetailGoto ==
    /\ UNCHANGED nonSpiderVars
    /\ sPc = "detail"
    /\ ridx \in 1..Len(page_req_ids)
    /\ detail_attempt' = detail_attempt + 1
    /\ \E r \in DetailResponses : detail_resp' = r
    /\ sPc' = "detail_handle"
    /\ UNCHANGED <<known, build_id, discover_attempt, total, offset, page_num,
                   all_req_ids, page_req_ids, ridx, search_attempt,
                   search_resp, jobs_found, pages_scraped, detail_fetches,
                   errors, jobs_list, handed, batch_called, offsets_req,
                   pages_seen, search_requests, search_failures, refreshes,
                   stop_reason, server>>

\* What _fetch_job_detail does with a response:
\*   "return" the call returns (props or None) to scrape,
\*   "retry"  it raises PlaywrightError, which tenacity retries.
\* Only a 429 raises; an exception of page.goto is caught inside the
\* function (errors += 1, return None) and every other non-ok status
\* returns None.
DetailDisposition(resp) ==
    IF resp = "rate_limited" THEN "retry" ELSE "return"

\* the errors counted for one finished detail call: by _fetch_job_detail
\* (goto exception), by _parse_job (exception while parsing), by scrape
\* (RetryError)
DetailErrors(resp, exhausted) ==
    IF resp \in {"goto_exception", "ok_parse_error"} THEN 1
    ELSE IF exhausted THEN 1
    ELSE 0

\* `if response and response.ok: self.detail_fetches += 1`
DetailFetched_never(resp) == FALSE
DetailFetched(resp) == resp \in {"ok_job", "ok_no_job", "ok_parse_error"}

\* `for rid in page_req_ids`: the index of the identifier that is fetched
\* after the i-th has been handled, 0 after the last
NextRid_skips_the_rest(i, ids) == 0
NextRid(i, ids) == IF i < Len(ids) THEN i + 1 ELSE 0

\* The rest of the attempt and, when _fetch_job_detail is over, _parse_job
\* and the yield (which run_hiring_cafe_spider appends to jobs_list), then
\* the next identifier of the page.
DetailHandle ==
    /\ UNCHANGED nonSpiderVars
    /\ sPc = "detail_handle"
    /\ LET rid == page_req_ids[ridx]
           d == DetailDisposition(detail_resp)
           exhausted == d = "retry" /\ DetailExhausted(detail_attempt)
           ok == DetailFetched(detail_resp)
       IN
       IF d = "retry" /\ ~exhausted
       THEN /\ sPc' = "detail"
            /\ UNCHANGED <<ridx, detail_attempt, detail_fetches, jobs_found,
                           jobs_list, errors>>
       ELSE /\ detail_attempt' = 0
            /\ detail_fetches' = IF ok THEN detail_fetches + 1
                                 ELSE detail_fetches
            /\ jobs_found' = IF detail_resp = "ok_job" THEN jobs_found + 1
                             ELSE jobs_found
            /\ jobs_list' = IF detail_resp = "ok_job"
                            THEN Append(jobs_list, rid) ELSE jobs_list
            /\ errors' = errors + DetailErrors(detail_resp, exhausted)
            /\ ridx' = NextRid(ridx, page_req_ids)
            /\ sPc' = IF ridx' = 0 THEN "page_end" ELSE "detail"
    /\ detail_resp' = "none"
    /\ UNCHANGED <<known, build_id, discover_attempt, total, offset, page_num,
                   all_req_ids, page_req_ids, search_attempt, search_resp,
                   pages_scraped, handed, batch_called, offsets_req,
                   pages_seen, search_requests, search_failures, refreshes,
                   stop_reason, server>>

\* scrape, end of the loop body: the counters, the total check and the
\* next test of the while condition.
PageEnd ==
    /\ UNCHANGED nonSpiderVars
    /\ sPc = "page_end"
    /\ pages_scraped' = pages_scraped + 1
    /\ page_num' = page_num + 1
    /\ offset' = offset + PageSize
    /\ IF ReachedTotal(total, offset + PageSize)
       THEN /\ sPc' = "done"
            /\ stop_reason' = "total"
       ELSE IF LoopCond(page_num + 1)
       THEN /\ sPc' = "search"
            /\ stop_reason' = stop_reason
       ELSE /\ sPc' = "done"
            /\ stop_reason' = "ceiling"
    /\ page_req_ids' = <<>>
    /\ UNCHANGED <<known, build_id, discover_attempt, total, all_req_ids, ridx,
                   search_attempt, detail_attempt, search_resp, detail_resp,
                   jobs_found, detail_fetches, errors, jobs_list, handed,
                   batch_called, offsets_req, pages_seen, search_requests,
                   search_failures,
                   refreshes, server>>

\* run_hiring_cafe_spider after the `async for`: the collected jobs go to
\* pipeline.process_batch when there are any; an exception of scrape is
\* caught; the spider is closed in either case.
RunSpiderFinish ==
    /\ UNCHANGED nonSpiderVars
    /\ sPc \in {"done", "raised"}
    /\ IF sPc = "done" /\ jobs_list # <<>>
       THEN /\ handed' = jobs_list
            /\ batch_called' = TRUE
       ELSE UNCHANGED <<handed, batch_called>>
    /\ sPc' = "closed"
    /\ UNCHANGED <<known, build_id, discover_attempt, total, offset, page_num,
                   all_req_ids, page_req_ids, ridx, search_attempt,
                   detail_attempt, search_resp, detail_resp, jobs_found,
                   pages_scraped, detail_fetches, errors, jobs_list,
                   offsets_req, pages_seen, search_requests, search_failures,
                   refreshes,
                   stop_reason, server>>

SpiderNext ==
    \/ EnsureBuildId
    \/ GetTotalCount
    \/ SearchGoto
    \/ SearchHandle
    \/ DetailGoto
    \/ DetailHandle
    \/ PageEnd
    \/ RunSpiderFinish

SpiderSpec == SpiderInit /\ [][SpiderNext]_vars

(***************************************************************************)
(* VoyageEmbeddingService.embed_jobs, called by process_batch, which then  *)
(* stores the jobs it gets back.                                           *)
(***************************************************************************)
EmbedInit ==
    /\ ePc = "idle"
    /\ ejobs \in UNION { [1..n -> {"unset"}] : n \in 1..MaxJobs }
    /\ max_batch_size \in 1..MaxChunk
    /\ chunk_start = 0
    /\ embed_attempt = 0
    /\ all_embeddings = 0
    /\ total_requests = 0
    /\ embed_raised = FALSE
    /\ chunk_log = <<>>
    /\ estored = 0
    /\ provider_calls = <<>>
    /\ evectors = <<>>
    /\ SpiderQuiet
    /\ PipeQuiet
    /\ ThrottleQuiet
    /\ DedupQuiet
    /\ FingerprintQuiet
    /\ StoreQuiet
    /\ CycleQuiet
    /\ MergeQuiet
    /\ SearchQuiet
    /\ PrepareQuiet
    /\ ParseQuiet
    /\ JanitorQuiet
    /\ AdapterQuiet
    /\ InstancesQuiet
    /\ EmbeddingWorkerQuiet
    /\ BotWorkerQuiet

\* @retry(stop=stop_after_attempt(5)) on _embed_batch_request
EmbedExhausted(attempt) == attempt >= EmbedAttempts

\* embed_jobs: `for job, embedding in zip(jobs, embeddings)`
ZipEmbeddings(jobs, count) ==
    [k \in 1..Len(jobs) |-> IF k <= count THEN "vector" ELSE jobs[k]]

\* embed_jobs: `except Exception: for job in jobs: job['embedding'] = None`
OnEmbedFailure(jobs) == [k \in 1..Len(jobs) |-> "none"]

\* embed_jobs: texts = [self._prepare_text(job) for job in jobs]; a text
\* is written as the index of its job
Texts(jobs) == [k \in 1..Len(jobs) |-> k]

\* embed_batch: chunk = texts[i:i + self.max_batch_size]
Chunk_one_short(texts, i, size) ==
    SubSeq(texts, i + 1,
           (IF i + size <= Len(texts) THEN i + size ELSE Len(texts)) - 1)
Chunk(texts, i, size) ==
    SubSeq(texts, i + 1,
           IF i + size <= Len(texts) THEN i + size ELSE Len(texts))

\* embed_jobs is called (jobs is not empty): texts are prepared and
\* embed_batch starts its first chunk
embed_jobs_call ==
    /\ ePc = "idle"
    /\ ePc' = "request"
    /\ chunk_start' = 0
    /\ embed_attempt' = 0
    /\ all_embeddings' = 0
    /\ UNCHANGED <<ejobs, max_batch_size, total_requests, embed_raised,
                   chunk_log, estored, provider_calls, evectors>>
    /\ UNCHANGED nonEmbedVars

\* result.embeddings of a client.embed call that returns: one vector for
\* each text, or vectors for the first texts only
ProviderAnswers(chunk) == {SubSeq(chunk, 1, n) : n \in 0..Len(chunk)}

\* one attempt of _embed_batch_request that the provider answers; when it
\* was the last chunk embed_batch returns and embed_jobs zips
embed_batch_request_ok ==
    /\ ePc = "request"
    /\ \E embeddings \in ProviderAnswers(Chunk(Texts(ejobs), chunk_start,
                                               max_batch_size)) :
       LET chunk == Chunk(Texts(ejobs), chunk_start, max_batch_size)
           got == all_embeddings + Len(embeddings)
           next == chunk_start + max_batch_size
       IN  /\ total_requests' = total_requests + 1
           /\ provider_calls' =
                 Append(provider_calls,
                        [texts |-> chunk, ok |-> TRUE,
                         vectors |-> Len(embeddings)])
           /\ evectors' = evectors \o embeddings
           /\ all_embeddings' = got
           /\ chunk_log' = Append(chunk_log, "ok")
           /\ chunk_start' = next
           /\ embed_attempt' = 0
           /\ IF next < Len(ejobs)
              THEN /\ ePc' = "request"
                   /\ ejobs' = ejobs
              ELSE /\ ePc' = "returned"
                   /\ ejobs' = ZipEmbeddings(ejobs, got)
    /\ UNCHANGED <<max_batch_size, embed_raised, estored>>
    /\ UNCHANGED nonEmbedVars

\* one attempt of _embed_batch_request that fails: retried, or after the
\* last attempt RetryError leaves embed_batch and is caught in embed_jobs
embed_batch_request_fails ==
    /\ ePc = "request"
    /\ IF EmbedExhausted(embed_attempt + 1)
       THEN /\ ePc' = "returned"
            /\ ejobs' = OnEmbedFailure(ejobs)
            /\ chunk_log' = Append(chunk_log, "exhausted")
            /\ embed_attempt' = 0
       ELSE /\ ePc' = "request"
            /\ embed_attempt' = embed_attempt + 1
            /\ UNCHANGED <<ejobs, chunk_log>>
    /\ provider_calls' =
          Append(provider_calls,
                 [texts |-> Chunk(Texts(ejobs), chunk_start, max_batch_size),
                  ok |-> FALSE, vectors |-> 0])
    /\ UNCHANGED <<max_batch_size, chunk_start, all_embeddings,
                   total_requests, embed_raised, estored, evectors>>
    /\ UNCHANGED nonEmbedVars

\* process_batch, stage 4: `for job_data in embedded_jobs: _store_job(...)`
store_embedded ==
    /\ ePc = "returned"
    /\ estored' = estored + 1
    /\ ePc' = IF estored + 1 = Len(ejobs) THEN "stored" ELSE "returned"
    /\ UNCHANGED <<ejobs, max_batch_size, chunk_start, embed_attempt,
                   all_embeddings, total_requests, embed_raised, chunk_log,
                   provider_calls, evectors>>
    /\ UNCHANGED nonEmbedVars

EmbedNext ==
    \/ embed_jobs_call
    \/ embed_batch_request_ok
    \/ embed_batch_request_fails
    \/ store_embedded

EmbedSpec == EmbedInit /\ [][EmbedNext]_vars

(***************************************************************************)
(* DeduplicationMiddleware used by one coroutine.                          *)
(***************************************************************************)
DedupInit ==
    /\ DedupQuiet
    /\ FingerprintQuiet
    /\ StoreQuiet
    /\ CycleQuiet
    /\ PipeQuiet
    /\ SpiderQuiet
    /\ EmbedQuiet
    /\ ThrottleQuiet
    /\ MergeQuiet
    /\ SearchQuiet
    /\ PrepareQuiet
    /\ ParseQuiet
    /\ JanitorQuiet
    /\ AdapterQuiet
    /\ InstancesQuiet
    /\ EmbeddingWorkerQuiet
    /\ BotWorkerQuiet

\* the fingerprint of the call in progress or last returned
DedupFp == generate_fingerprint(dedup.title, dedup.company, dedup.location)

\* is_duplicate, lines 173-184: `if exists: return True, fingerprint`,
\* else `self._cache.add(fingerprint)`
CacheAfter_never_adds(cacheNow, exists, fingerprint) == cacheNow
CacheAfter(cacheNow, exists, fingerprint) ==
    IF exists THEN cacheNow ELSE cacheNow \cup {fingerprint}

\* is_duplicate(title, company, location) up to its return from the cache
\* test or to `await self.db.fingerprint_exists(fingerprint)`
dedup_is_duplicate ==
    /\ dedup.pc = "idle"
    /\ dedup.n < MaxDedupCalls
    /\ \E job \in Candidates :
         LET fingerprint == generate_fingerprint(job.job_title,
                                job.company_name, job.location)
             call == [dedup EXCEPT !.title = job.job_title,
                                   !.company = job.company_name,
                                   !.location = job.location]
         IN  dedup' = IF fingerprint \in cache
                      THEN [call EXCEPT !.result = "dup", !.n = @ + 1]
                      ELSE [call EXCEPT !.result = "none",
                                        !.pc = "db_check"]
    /\ UNCHANGED <<cache, rows>>
    /\ UNCHANGED nonDedupVars

\* is_duplicate resumes with the answer of fingerprint_exists
dedup_db_answer ==
    /\ dedup.pc = "db_check"
    /\ LET exists == fingerprint_exists(rows, DedupFp)
       IN  /\ cache' = CacheAfter(cache, exists, DedupFp)
           /\ dedup' = [dedup EXCEPT
                          !.pc = "idle", !.n = @ + 1,
                          !.result = IF exists THEN "dup" ELSE "new"]
    /\ UNCHANGED rows
    /\ UNCHANGED nonDedupVars

\* the record that passed is stored (_store_job -> insert_job)
dedup_store ==
    /\ dedup.pc = "idle"
    /\ dedup.result = "new"
    /\ rows' = insert_job(rows,
                  [pos |-> 1,
                   job |-> [job_title |-> dedup.title,
                            company_name |-> dedup.company,
                            location |-> dedup.location,
                            cleaned_len |-> MinCleanedLen, link |-> "https"],
                   fingerprint |-> DedupFp,
                   job_id |-> job_id_of(DedupFp),
                   embedding |-> FALSE])
    /\ dedup' = [dedup EXCEPT !.result = "none"]
    /\ UNCHANGED cache
    /\ UNCHANGED nonDedupVars

\* DeduplicationMiddleware.clear_cache, between calls
clear_cache ==
    /\ dedup.pc = "idle"
    /\ cache # {}
    /\ cache' = {}
    /\ dedup' = [dedup EXCEPT !.cleared = @ \cup cache, !.result = "none"]
    /\ UNCHANGED rows
    /\ UNCHANGED nonDedupVars

DedupNext ==
    \/ dedup_is_duplicate
    \/ dedup_db_answer
    \/ dedup_store
    \/ clear_cache

DedupSpec == DedupInit /\ [][DedupNext]_vars

(***************************************************************************)
(* generate_fingerprint, both definitions.                                 *)
(***************************************************************************)
\* models.generate_fingerprint: title and company are lower-cased and
\* stripped, the location goes through models.normalize_location (the same
\* steps as the normalize_location of deduplication.py)
models_generate_fingerprint(title, company, location) ==
    sha256((IF title = <<>> THEN <<>> ELSE strip(lower(title)))
           \o <<"|">> \o
           (IF company = <<>> THEN <<>> ELSE strip(lower(company)))
           \o <<"|">> \o normalize_location(location))

\* titles: every string of at most MaxTitle characters over an upper-case
\* letter, a lower-case letter, a punctuation mark and a blank, and some
\* longer ones
FpTitles ==
    UNION {[1..n -> {"D", "d", ".", " "}] : n \in 0..MaxTitle}
    \cup {<<"S", "r", ".", " ", "D", "e", "v">>,
          <<"s", "r", " ", "d", "e", "v">>,
          <<"d", " ", " ", "d">>}

\* (company, location) of the first and of the second triple
FpRest ==
    {<<c, l>> :
        c \in {<< <<"A", "c", "m", "e">>, <<"A", "c", "m", "e">> >>,
               << <<"A", "c", "m", "e">>, <<"A", "C", "M", "E", ".">> >>},
        l \in {<< <<>>, <<>> >>,
               << <<"S", "F", ",", " ", "C", "A">>,
                  <<"s", "f", " ", "c", "a">> >>}}

FingerprintInit ==
    /\ \E t1 \in FpTitles, t2 \in FpTitles, r \in FpRest :
          fpc = [pc |-> "input",
                 a |-> [title |-> t1, company |-> r[1][1],
                        location |-> r[2][1]],
                 b |-> [title |-> t2, company |-> r[1][2],
                        location |-> r[2][2]],
                 dedup_keys |-> <<>>, models_keys |-> <<>>]
    /\ SpiderQuiet
    /\ PipeQuiet
    /\ EmbedQuiet
    /\ ThrottleQuiet
    /\ DedupQuiet
    /\ StoreQuiet
    /\ CycleQuiet
    /\ MergeQuiet
    /\ SearchQuiet
    /\ PrepareQuiet
    /\ ParseQuiet
    /\ JanitorQuiet
    /\ AdapterQuiet
    /\ InstancesQuiet
    /\ EmbeddingWorkerQuiet
    /\ BotWorkerQuiet

\* deduplication.generate_fingerprint applied to a, to b, and to a again
call_dedup_generate_fingerprint ==
    /\ fpc.pc = "input"
    /\ fpc' = [fpc EXCEPT
                 !.pc = "models",
                 !.dedup_keys =
                    <<generate_fingerprint(fpc.a.title, fpc.a.company,
                                           fpc.a.location),
                      generate_fingerprint(fpc.b.title, fpc.b.company,
                                           fpc.b.location),
                      generate_fingerprint(fpc.a.title, fpc.a.company,
                                           fpc.a.location)>>]
    /\ UNCHANGED nonFingerprintVars

\* models.generate_fingerprint applied to a, to b, and to a again
call_models_generate_fingerprint ==
    /\ fpc.pc = "models"
    /\ fpc' = [fpc EXCEPT
                 !.pc = "done",
                 !.models_keys =
                    <<models_generate_fingerprint(fpc.a.title, fpc.a.company,
                                                  fpc.a.location),
                      models_generate_fingerprint(fpc.b.title, fpc.b.company,
                                                  fpc.b.location),
                      models_generate_fingerprint(fpc.a.title, fpc.a.company,
                                                  fpc.a.location)>>]
    /\ UNCHANGED nonFingerprintVars

FingerprintNext ==
    \/ call_dedup_generate_fingerprint
    \/ call_models_generate_fingerprint

FingerprintSpec == FingerprintInit /\ [][FingerprintNext]_vars

(***************************************************************************)
(* Statements on the jobs table.                                           *)
(***************************************************************************)
StoreInit ==
    /\ StoreQuiet
    /\ CycleQuiet
    /\ SpiderQuiet
    /\ PipeQuiet
    /\ EmbedQuiet
    /\ ThrottleQuiet
    /\ DedupQuiet
    /\ FingerprintQuiet
    /\ MergeQuiet
    /\ SearchQuiet
    /\ PrepareQuiet
    /\ ParseQuiet
    /\ JanitorQuiet
    /\ AdapterQuiet
    /\ InstancesQuiet
    /\ EmbeddingWorkerQuiet
    /\ BotWorkerQuiet

\* the records insert_job is called with: processed.model_dump() of a
\* candidate, with or without an embedding
StoreRecords ==
    {[pos |-> 1, job |-> job, fingerprint |-> Fingerprint(job),
      job_id |-> job_id_of(Fingerprint(job)), embedding |-> e] :
        job \in Candidates, e \in BOOLEAN}

\* Database.insert_job(job_data): the statement runs and True is returned
call_insert_job(data) ==
    /\ ins.n < MaxInserts
    /\ rows' = insert_job(rows, data)
    /\ ins' = [n |-> ins.n + 1, conflict |-> HasJobId(rows, data.job_id),
               success |-> TRUE, job_id |-> data.job_id,
               job_title |-> data.job.job_title,
               company_name |-> data.job.company_name,
               cleaned_len |-> data.job.cleaned_len]
    /\ UNCHANGED nonStoreVars

\* Database.mark_invalid_jobs([job_id], reason)
mark_invalid_jobs(jid) ==
    /\ \E i \in 1..Len(rows) : rows[i].job_id = jid /\ rows[i].is_valid
    /\ rows' = [i \in 1..Len(rows) |->
                  IF rows[i].job_id = jid
                  THEN [rows[i] EXCEPT !.is_valid = FALSE]
                  ELSE rows[i]]
    /\ UNCHANGED ins
    /\ UNCHANGED nonStoreVars

StoreNext ==
    \/ \E data \in StoreRecords : call_insert_job(data)
    \/ \E data \in StoreRecords : mark_invalid_jobs(data.job_id)

StoreSpec == StoreInit /\ [][StoreNext]_vars

(***************************************************************************)
(* ScraperSystem.run                                                       *)
(***************************************************************************)
\* ScraperSystem.setup has built the one pipeline (with an embedding
\* service when there is an API key) on an empty jobs table
CycleInit ==
    /\ CycleQuiet
    /\ task = [t \in Tasks |-> IdleTask]
    /\ cache = {}
    /\ rows = <<>>
    /\ metrics = ZeroMetrics
    /\ has_embedder \in BOOLEAN
    /\ worker = IdleWorker
    /\ SpiderQuiet
    /\ EmbedQuiet
    /\ ThrottleQuiet
    /\ DedupQuiet
    /\ FingerprintQuiet
    /\ StoreQuiet
    /\ MergeQuiet
    /\ SearchQuiet
    /\ PrepareQuiet
    /\ ParseQuiet
    /\ JanitorQuiet
    /\ AdapterQuiet
    /\ InstancesQuiet
    /\ EmbeddingWorkerQuiet
    /\ BotWorkerQuiet

\* the pipeline call of the cycle
CycleTask == "t1"

\* jobs_list after `async for job in spider.scrape(...)`: nothing, one
\* candidate, or the same candidate twice; a candidate takes a search and a
\* detail request
CycleJobs(requests) ==
    IF requests < 2 THEN {<<>>}
    ELSE {<<>>} \cup {b \in Batches : Len(b) = 1}
         \cup {b \in Batches : Len(b) = 2 /\ b[1] = b[2]}

\* run_scrape_cycle: an exception that leaves run_hiring_cafe_spider
\* (raised by spider.close() in its finally) is caught by `except
\* Exception`, and the cycle goes on to its summary
OnCycleException_propagates == "cycle_raised"
OnCycleException == "cycle_error"

\* run: `await self.setup()`, then the initial run_scrape_cycle is called
setup ==
    /\ cyc.pc = "setup"
    /\ cyc' = [cyc EXCEPT !.pc = "cycle_start", !.cycle = 1]
    /\ UNCHANGED <<running, pipeVars>>
    /\ UNCHANGED nonCycleVars

\* run_scrape_cycle begins; run_hiring_cafe_spider builds a spider and an
\* empty jobs_list
run_scrape_cycle ==
    /\ cyc.pc = "cycle_start"
    /\ cyc' = [cyc EXCEPT !.pc = "spider", !.requests = 0, !.jobs = <<>>,
                          !.spider_error = FALSE]
    /\ task' = [t \in Tasks |-> IdleTask]
    /\ UNCHANGED <<running, cache, rows, metrics, has_embedder, worker>>
    /\ UNCHANGED nonCycleVars

\* scrape issues an outbound request (build id, total, search, detail)
spider_request ==
    /\ cyc.pc = "spider"
    /\ cyc.requests < MaxCycleRequests
    /\ cyc' = [cyc EXCEPT !.requests = @ + 1]
    /\ UNCHANGED <<running, pipeVars>>
    /\ UNCHANGED nonCycleVars

\* scrape ends; `if jobs_list:` decides whether process_batch is called
scrape_ends ==
    /\ cyc.pc = "spider"
    /\ cyc.requests >= 1
    /\ \E jobs \in CycleJobs(cyc.requests) :
          cyc' = [cyc EXCEPT !.jobs = jobs,
                             !.pc = IF jobs = <<>> THEN "close"
                                    ELSE "batch_call"]
    /\ UNCHANGED <<running, pipeVars>>
    /\ UNCHANGED nonCycleVars

\* scrape raises (build-id discovery or the total request gave up):
\* `except Exception` of run_hiring_cafe_spider, then its finally
scrape_raises ==
    /\ cyc.pc = "spider"
    /\ cyc.requests >= 1
    /\ cyc' = [cyc EXCEPT !.spider_error = TRUE, !.pc = "close"]
    /\ UNCHANGED <<running, pipeVars>>
    /\ UNCHANGED nonCycleVars

\* `stored = await self.pipeline.process_batch(jobs_list)` and the steps
\* of that call
cycle_process_batch ==
    /\ cyc.pc = "batch_call"
    /\ task[CycleTask].pc = "idle"
    /\ Begin(CycleTask, "batch", cyc.jobs)

cycle_is_duplicate ==
    /\ cyc.pc = "batch_call"
    /\ is_duplicate(CycleTask)

cycle_embed_jobs ==
    /\ cyc.pc = "batch_call"
    /\ embed_jobs(CycleTask)

cycle_store_job ==
    /\ cyc.pc = "batch_call"
    /\ store_job(CycleTask)

\* process_batch has returned: the metrics of ScraperSystem are updated
process_batch_returns ==
    /\ cyc.pc = "batch_call"
    /\ task[CycleTask].pc = "done"
    /\ cyc' = [cyc EXCEPT !.pc = "close"]
    /\ UNCHANGED <<running, pipeVars>>
    /\ UNCHANGED nonCycleVars

\* `finally: await spider.close()`, which may raise
spider_close ==
    /\ cyc.pc = "close"
    /\ \E ok \in BOOLEAN :
          cyc' = [cyc EXCEPT !.pc = IF ok THEN "health"
                                    ELSE OnCycleException]
    /\ UNCHANGED <<running, pipeVars>>
    /\ UNCHANGED nonCycleVars

\* self.health.update_status(...), in the try or in the except branch
health_update_status ==
    /\ cyc.pc \in {"health", "cycle_error"}
    /\ cyc' = [cyc EXCEPT !.pc = "summary"]
    /\ UNCHANGED <<running, pipeVars>>
    /\ UNCHANGED nonCycleVars

\* self.pipeline.get_metrics() and the scrape_cycle_complete log line;
\* run_scrape_cycle returns to run
cycle_summary ==
    /\ cyc.pc = "summary"
    /\ cyc' = [cyc EXCEPT !.pc = "loop_test", !.summaries = @ + 1]
    /\ UNCHANGED <<running, pipeVars>>
    /\ UNCHANGED nonCycleVars

\* run: `while self.running:`
loop_test ==
    /\ cyc.pc = "loop_test"
    /\ cyc' = [cyc EXCEPT !.pc = IF running THEN "sleep" ELSE "shutdown"]
    /\ UNCHANGED <<running, pipeVars>>
    /\ UNCHANGED nonCycleVars

\* run: asyncio.sleep(SCRAPE_INTERVAL_MINUTES * 60) returns;
\* `if self.running: await self.run_scrape_cycle()`
sleep_returns ==
    /\ cyc.pc = "sleep"
    /\ running => cyc.cycle < MaxCycles
    /\ cyc' = IF running
              THEN [cyc EXCEPT !.pc = "cycle_start", !.cycle = @ + 1]
              ELSE [cyc EXCEPT !.pc = "loop_test"]
    /\ UNCHANGED <<running, pipeVars>>
    /\ UNCHANGED nonCycleVars

\* ScraperSystem.shutdown, from the finally of standalone_main
shutdown ==
    /\ cyc.pc = "shutdown"
    /\ cyc' = [cyc EXCEPT !.pc = "stopped"]
    /\ running' = FALSE
    /\ UNCHANGED pipeVars
    /\ UNCHANGED nonCycleVars

\* signal_handler of standalone_main (SIGINT / SIGTERM)
signal_handler ==
    /\ running
    /\ cyc.pc # "stopped"
    /\ running' = FALSE
    /\ UNCHANGED <<cyc, pipeVars>>
    /\ UNCHANGED nonCycleVars

\* every step but the arrival of a signal
CycleProgress ==
    \/ setup
    \/ run_scrape_cycle
    \/ spider_request
    \/ scrape_ends
    \/ scrape_raises
    \/ cycle_process_batch
    \/ cycle_is_duplicate
    \/ cycle_embed_jobs
    \/ cycle_store_job
    \/ process_batch_returns
    \/ spider_close
    \/ health_update_status
    \/ cycle_summary
    \/ loop_test
    \/ sleep_returns
    \/ shutdown

CycleNext == CycleProgress \/ signal_handler

CycleSpec == CycleInit /\ [][CycleNext]_vars

(***************************************************************************)
(* _throttle / _rate_limit on a discrete clock.                            *)
(***************************************************************************)
ThrottleInit ==
    /\ ThrottleQuiet
    /\ SpiderQuiet
    /\ PipeQuiet
    /\ EmbedQuiet
    /\ DedupQuiet
    /\ FingerprintQuiet
    /\ StoreQuiet
    /\ CycleQuiet
    /\ MergeQuiet
    /\ SearchQuiet
    /\ PrepareQuiet
    /\ ParseQuiet
    /\ JanitorQuiet
    /\ AdapterQuiet
    /\ InstancesQuiet
    /\ EmbeddingWorkerQuiet
    /\ BotWorkerQuiet

\* coroutines of client cl that hold its semaphore
InFlight(cl) ==
    Cardinality({c \in Callers : ClientOf(c) = cl /\ gate[c].pc # "idle"})

\* `self.last_request_time = time.time()`, and the request that follows
\* without a suspension in between (page.goto / run_in_executor)
StartRequest(c) ==
    /\ last_request_time' =
          [last_request_time EXCEPT ![ClientOf(c)] = now]
    /\ starts' = [starts EXCEPT ![ClientOf(c)] = Append(@, now)]

\* Coroutine c comes to a request (for the embedding service: enters
\* `async with self._semaphore`) and runs _throttle / _rate_limit up to
\* its first suspension: `await asyncio.sleep(min_interval - elapsed)` when
\* elapsed < min_interval, and the request itself otherwise.
rate_limit(c) ==
    /\ gate[c].pc = "idle"
    /\ Len(starts[ClientOf(c)]) + InFlight(ClientOf(c)) < MaxRequests
    /\ ClientOf(c) = "voyage" => InFlight("voyage") < SemaphorePermits
    /\ LET elapsed == now - last_request_time[ClientOf(c)]
       IN  IF elapsed < MinInterval
           THEN /\ gate' = [gate EXCEPT ![c] =
                              [pc |-> "sleep",
                               wake |-> now + (MinInterval - elapsed)]]
                /\ UNCHANGED <<last_request_time, starts>>
           ELSE /\ gate' = [gate EXCEPT ![c] = [pc |-> "request", wake |-> 0]]
                /\ StartRequest(c)
    /\ UNCHANGED now
    /\ UNCHANGED nonThrottleVars

\* asyncio.sleep returns, at its deadline or later, and c goes on to
\* `self.last_request_time = time.time()` and the request
rate_limit_wakes(c) ==
    /\ gate[c].pc = "sleep"
    /\ now >= gate[c].wake
    /\ gate' = [gate EXCEPT ![c] = [pc |-> "request", wake |-> 0]]
    /\ StartRequest(c)
    /\ UNCHANGED now
    /\ UNCHANGED nonThrottleVars

\* the request of c returns or raises (and the semaphore is released)
request_returns(c) ==
    /\ gate[c].pc = "request"
    /\ gate' = [gate EXCEPT ![c] = IdleGate]
    /\ UNCHANGED <<now, last_request_time, starts>>
    /\ UNCHANGED nonThrottleVars

\* the clock advances
Tick ==
    /\ now < MaxTime
    /\ now' = now + 1
    /\ UNCHANGED <<last_request_time, gate, starts>>
    /\ UNCHANGED nonThrottleVars

ThrottleNext ==
    \/ \E c \in Callers : rate_limit(c)
    \/ \E c \in Callers : rate_limit_wakes(c)
    \/ \E c \in Callers : request_returns(c)
    \/ Tick

ThrottleSpec == ThrottleInit /\ [][ThrottleNext]_vars

(***************************************************************************)
(* HybridSearch._merge_results: the weighted ranking.  Weights and the    *)
(* freshness score are in tenths; a normalized score is the fraction      *)
(* num / den.                                                             *)
(***************************************************************************)
\* job_id of the rows of the jobs table (TEXT UNIQUE NOT NULL)
JobIds == {1, 2, 3}

\* posting_date of a row as _merge_results sees it: absent, a 'YYYY-MM-DD'
\* string, or the datetime.date asyncpg returns for a DATE column
NoDate == [kind |-> "none", age_days |-> 0]

PostingDateOf(job_id) ==
    IF job_id = 1 THEN NoDate
    ELSE IF job_id = 2 THEN [kind |-> "str", age_days |-> 0]
    ELSE IF job_id = 3 THEN [kind |-> "str", age_days |-> 40]
    ELSE [kind |-> "date", age_days |-> 3]

\* _calculate_freshness_score: `datetime.now() - posted` raises TypeError
\* for a datetime.date, which `except Exception` turns into 0.5
calculate_freshness_score(posting_date) ==
    IF posting_date.kind = "none" THEN 5
    ELSE IF posting_date.kind # "str" THEN 5
    ELSE IF posting_date.age_days <= 1 THEN 10
    ELSE IF posting_date.age_days <= 7 THEN 9
    ELSE IF posting_date.age_days <= 14 THEN 7
    ELSE IF posting_date.age_days <= 30 THEN 5
    ELSE 3

Zero == [num |-> 0, den |-> 1]

\* max((r.get(field, 0) for r in results), default=1)
MaxRaw(raws) ==
    IF raws = <<>> THEN 1
    ELSE CHOOSE x \in {raws[i] : i \in DOMAIN raws} :
            \A i \in DOMAIN raws : x >= raws[i]

\* `(raw / max_score) if max_score > 0 else 0`
Normalize_inverted(raw, max_score) ==
    IF max_score > 0 THEN [num |-> max_score - raw, den |-> max_score]
    ELSE Zero
Normalize(raw, max_score) ==
    IF max_score > 0 THEN [num |-> raw, den |-> max_score] ELSE Zero

\* where all_jobs holds job_id, 0 if it does not
Position(all_jobs, job_id) ==
    IF \E i \in DOMAIN all_jobs : all_jobs[i].job_id = job_id
    THEN CHOOSE i \in DOMAIN all_jobs : all_jobs[i].job_id = job_id
    ELSE 0

\* the loop over vector_results: all_jobs[job_id] = {...}; a dict keeps
\* the position of a key that is assigned again
RECURSIVE process_vector_results(_, _, _, _)
process_vector_results(all_jobs, vector_results, max_vector_score, i) ==
    IF i > Len(vector_results) THEN all_jobs
    ELSE LET result == vector_results[i]
             entry == [job_id |-> result.job_id,
                       posting_date |-> result.posting_date,
                       vector_score |->
                           Normalize(result.similarity, max_vector_score),
                       keyword_score |-> Zero,
                       vector_rank |-> i,
                       keyword_rank |-> 0]
             at == Position(all_jobs, result.job_id)
             next == IF result.job_id = 0 THEN all_jobs
                     ELSE IF at = 0 THEN Append(all_jobs, entry)
                     ELSE [all_jobs EXCEPT ![at] = entry]
         IN  process_vector_results(next, vector_results, max_vector_score,
                                    i + 1)

\* the loop over keyword_results
RECURSIVE process_keyword_results(_, _, _, _)
process_keyword_results(all_jobs, keyword_results, max_keyword_score, i) ==
    IF i > Len(keyword_results) THEN all_jobs
    ELSE LET result == keyword_results[i]
             normalized_score == Normalize(result.rank, max_keyword_score)
             entry == [job_id |-> result.job_id,
                       posting_date |-> result.posting_date,
                       vector_score |-> Zero,
                       keyword_score |-> normalized_score,
                       vector_rank |-> 0,
                       keyword_rank |-> i]
             at == Position(all_jobs, result.job_id)
             next == IF result.job_id = 0 THEN all_jobs
                     ELSE IF at = 0 THEN Append(all_jobs, entry)
                     ELSE [all_jobs EXCEPT
                             ![at].keyword_score = normalized_score,
                             ![at].keyword_rank = i]
         IN  process_keyword_results(next, keyword_results,
                                     max_keyword_score, i + 1)

\* a denominator every score of one merge can be written over
ScoreScale(max_vector_score, max_keyword_score) ==
    10 * (IF max_vector_score > 0 THEN max_vector_score ELSE 1)
       * (IF max_keyword_score > 0 THEN max_keyword_score ELSE 1)

\* w_vector * vector_score + w_keyword * keyword_score + w_freshness *
\* freshness, as a fraction over scale
combined_score(job, weights, scale) ==
    [num |-> weights.vector_similarity * job.vector_score.num
                 * (scale \div job.vector_score.den)
             + weights.keyword_match * job.keyword_score.num
                 * (scale \div job.keyword_score.den)
             + weights.freshness
                 * calculate_freshness_score(job.posting_date)
                 * (scale \div 10),
     den |-> scale]

\* all_jobs after the three loops: every candidate with its scores
ScoredJobs(vector_results, keyword_results, weights) ==
    LET max_vector_score ==
            MaxRaw([i \in DOMAIN vector_results |->
                        vector_results[i].similarity])
        max_keyword_score ==
            MaxRaw([i \in DOMAIN keyword_results |->
                        keyword_results[i].rank])
        from_vector ==
            process_vector_results(<<>>, vector_results, max_vector_score, 1)
        all_jobs ==
            process_keyword_results(from_vector, keyword_results,
                                    max_keyword_score, 1)
        scale == ScoreScale(max_vector_score, max_keyword_score)
    IN  [i \in DOMAIN all_jobs |->
            [job_id |-> all_jobs[i].job_id,
             vector_score |-> all_jobs[i].vector_score,
             keyword_score |-> all_jobs[i].keyword_score,
             vector_rank |-> all_jobs[i].vector_rank,
             keyword_rank |-> all_jobs[i].keyword_rank,
             freshness_score |->
                 calculate_freshness_score(all_jobs[i].posting_date),
             combined_score |->
                 combined_score(all_jobs[i], weights, scale)]]

\* a >= b for fractions with positive denominators
Geq(a, b) == a.num * b.den >= b.num * a.den

\* sorted(all_jobs.values(), key=combined_score, reverse=True): the sort is
\* stable, and reverse=True keeps the order of entries with equal keys
sorted_reverse_unsorted(jobs, done) == jobs
RECURSIVE sorted_reverse(_, _)
sorted_reverse(jobs, done) ==
    IF jobs = <<>> THEN done
    ELSE LET x == Head(jobs)
             k == Cardinality({i \in DOMAIN done :
                      Geq(done[i].combined_score, x.combined_score)})
         IN  sorted_reverse(Tail(jobs),
                 SubSeq(done, 1, k) \o <<x>> \o SubSeq(done, k + 1, Len(done)))

\* sorted_results[:limit]
Slice(q, limit) ==
    IF limit >= Len(q) THEN q
    ELSE IF limit >= 0 THEN SubSeq(q, 1, limit)
    ELSE IF Len(q) + limit > 0 THEN SubSeq(q, 1, Len(q) + limit)
    ELSE <<>>

merge_results(vector_results, keyword_results, limit, weights) ==
    Slice(sorted_reverse(
              ScoredJobs(vector_results, keyword_results, weights), <<>>),
          limit)

\* raw cosine similarities 1 - (embedding <=> query) and ts_rank values,
\* in units of the model
Similarities == {-1, 1, 2}

Ranks == {0, 1, 2}

\* what vector_search returns: rows of distinct job_id, highest similarity
\* first (ORDER BY embedding <=> $1)
VectorResultSets(max_len) ==
    {q \in UNION {[1..n -> [job_id : JobIds, similarity : Similarities]] :
                     n \in 0..max_len} :
        /\ \A i, j \in DOMAIN q : i < j =>
              /\ q[i].job_id # q[j].job_id
              /\ q[i].similarity >= q[j].similarity}

\* what full_text_search returns: rows of distinct job_id, ORDER BY rank DESC
KeywordResultSets(max_len) ==
    {q \in UNION {[1..n -> [job_id : JobIds, rank : Ranks]] :
                     n \in 0..max_len} :
        /\ \A i, j \in DOMAIN q : i < j =>
              /\ q[i].job_id # q[j].job_id
              /\ q[i].rank >= q[j].rank}

\* dict(row) of each row, with the posting_date of the row
WithDates(q) ==
    [i \in DOMAIN q |->
        IF "similarity" \in DOMAIN q[i]
        THEN [job_id |-> q[i].job_id, similarity |-> q[i].similarity,
              posting_date |-> PostingDateOf(q[i].job_id)]
        ELSE [job_id |-> q[i].job_id, rank |-> q[i].rank,
              posting_date |-> PostingDateOf(q[i].job_id)]]

WeightChoices ==
    {[vector_similarity |-> a, keyword_match |-> b, freshness |-> c] :
        a \in {0, DEFAULT_WEIGHTS.vector_similarity},
        b \in {DEFAULT_WEIGHTS.keyword_match},
        c \in {DEFAULT_WEIGHTS.freshness}}

MergeInit ==
    /\ \E v \in VectorResultSets(MaxResults),
          k \in KeywordResultSets(MaxResults),
          l \in 0..MaxLimit, w \in WeightChoices :
          mrg = [pc |-> "input", vector_results |-> WithDates(v),
                 keyword_results |-> WithDates(k), limit |-> l,
                 weights |-> w, before |-> <<>>, after |-> <<>>]
    /\ SpiderQuiet
    /\ PipeQuiet
    /\ EmbedQuiet
    /\ ThrottleQuiet
    /\ DedupQuiet
    /\ FingerprintQuiet
    /\ StoreQuiet
    /\ CycleQuiet
    /\ SearchQuiet
    /\ PrepareQuiet
    /\ ParseQuiet
    /\ JanitorQuiet
    /\ AdapterQuiet
    /\ InstancesQuiet
    /\ EmbeddingWorkerQuiet
    /\ BotWorkerQuiet

\* _merge_results(vector_results, keyword_results, limit)
call_merge_results ==
    /\ mrg.pc = "input"
    /\ mrg' = [mrg EXCEPT
                 !.pc = "merged",
                 !.before = merge_results(mrg.vector_results,
                                          mrg.keyword_results, mrg.limit,
                                          mrg.weights)]
    /\ UNCHANGED nonMergeVars

\* self.weights['vector_similarity'] is raised, the other weights stay
raise_vector_similarity ==
    /\ mrg.pc = "merged"
    /\ \E d \in 1..MaxRaise :
          mrg' = [mrg EXCEPT
                    !.pc = "raised",
                    !.weights.vector_similarity = @ + d]
    /\ UNCHANGED nonMergeVars

\* _merge_results on the same result sets with the new weights
call_merge_results_again ==
    /\ mrg.pc = "raised"
    /\ mrg' = [mrg EXCEPT
                 !.pc = "remerged",
                 !.after = merge_results(mrg.vector_results,
                                         mrg.keyword_results, mrg.limit,
                                         mrg.weights)]
    /\ UNCHANGED nonMergeVars

MergeNext ==
    \/ call_merge_results
    \/ raise_vector_similarity
    \/ call_merge_results_again

MergeSpec == MergeInit /\ [][MergeNext]_vars

(***************************************************************************)
(* HybridSearch.search, its result cache and update_weights.               *)
(***************************************************************************)
\* query texts
Queries == {<<"a">>, <<"A">>, <<"d">>}

\* the filter keys Database.vector_search reads, in sorted order
FilterKeys == <<"industry", "job_type", "remote_only">>

KeyIndex(k) == CHOOSE i \in DOMAIN FilterKeys : FilterKeys[i] = k

\* filters: None, or a dict as its items in insertion order, each value
\* written as its repr
FilterDicts ==
    {<<>>,
     <<[k |-> "industry", v |-> "'x'"],
       [k |-> "remote_only", v |-> "True"]>>,
     <<[k |-> "remote_only", v |-> "True"],
       [k |-> "industry", v |-> "'x'"]>>}

\* the limits the second coroutine calls search with
Limits == {1}

\* the arguments each coroutine calls search with: the first repeats one
\* request, the second asks anything
SearchCalls(r) ==
    IF r = "s1"
    THEN {[query |-> <<"a">>,
           filters |-> <<[k |-> "industry", v |-> "'x'"],
                         [k |-> "remote_only", v |-> "True"]>>,
           limit |-> 2, use_cache |-> TRUE]}
    ELSE [query : Queries, filters : FilterDicts, limit : Limits,
          use_cache : BOOLEAN]

\* sorted(filters.items())
UnsortedItems(filters) == filters
SortedItems(filters) ==
    [p \in DOMAIN filters |->
        filters[CHOOSE i \in DOMAIN filters :
            Cardinality({j \in DOMAIN filters :
                KeyIndex(filters[j].k) < KeyIndex(filters[i].k)}) + 1 = p]]

\* str() of a list of (key, value) tuples
RECURSIVE str_items(_)
str_items(items) ==
    IF items = <<>> THEN <<>>
    ELSE <<"(", "'", Head(items).k, "'", ", ", Head(items).v, ")">>
         \o (IF Tail(items) = <<>> THEN <<>> ELSE <<", ">>)
         \o str_items(Tail(items))

\* _get_cache_key: f"{query}|{filter_str}"
get_cache_key(query, filters) ==
    LET filter_str == IF filters # <<>>
                      THEN <<"[">> \o str_items(SortedItems(filters))
                           \o <<"]">>
                      ELSE <<>>
    IN  query \o <<"|">> \o filter_str

\* _is_cache_valid: age < self.cache_ttl
is_cache_valid(cache_entry, at) == at - cache_entry.cached_at < CacheTtl

\* clear_cache of HybridSearch: self.cache.clear()
search_clear_cache_keeps(entries) == entries
search_clear_cache(entries) == {}

\* the rows of the jobs table the full-text query of a text matches, best
\* rank first; plainto_tsquery ignores case
Matches(query) ==
    IF lower(query) = <<"a">>
    THEN WithDates(<<[job_id |-> 1, rank |-> 2], [job_id |-> 2, rank |-> 1]>>)
    ELSE <<>>

\* the rows with an embedding that pass the filters, nearest first
Nearest(filters) ==
    IF \E i \in DOMAIN filters : filters[i].k = "remote_only"
    THEN WithDates(<<[job_id |-> 3, similarity |-> 1]>>)
    ELSE WithDates(<<[job_id |-> 2, similarity |-> 2],
                     [job_id |-> 3, similarity |-> 1]>>)

SearchInit ==
    /\ \E e \in BOOLEAN, c \in BOOLEAN :
          hs = [weights |-> DEFAULT_WEIGHTS, cache |-> {}, writes |-> 0,
                has_embedder |-> e, has_asyncio_coroutine |-> c]
    /\ sclock = 0
    /\ req = [r \in Searches |-> IdleSearch]
    /\ SpiderQuiet
    /\ PipeQuiet
    /\ EmbedQuiet
    /\ ThrottleQuiet
    /\ DedupQuiet
    /\ FingerprintQuiet
    /\ StoreQuiet
    /\ CycleQuiet
    /\ MergeQuiet
    /\ PrepareQuiet
    /\ ParseQuiet
    /\ JanitorQuiet
    /\ AdapterQuiet
    /\ InstancesQuiet
    /\ EmbeddingWorkerQuiet
    /\ BotWorkerQuiet

\* where search goes without a query embedding: asyncio.coroutine(lambda:
\* [])() stands for the vector search where asyncio still has coroutine();
\* elsewhere it raises AttributeError inside the try
NoEmbeddingPc ==
    IF hs.has_asyncio_coroutine THEN "gather" ELSE "fallback"

\* what the except clause of search does with an exception of the hybrid
\* path: it awaits full_text_search(query, limit)
OnSearchException_raises == "raised"
OnSearchException == "fallback"

\* search(query, limit, filters, use_cache) up to its first await: the
\* cache lookup, and the return of a valid entry
search(r) ==
    /\ req[r].pc = "idle"
    /\ \E call_args \in SearchCalls(r) :
          LET query == call_args.query
              filters == call_args.filters
              limit == call_args.limit
              use_cache == call_args.use_cache
              cache_key == get_cache_key(query, filters)
              cached == {e \in hs.cache : e.key = cache_key}
              valid == {e \in cached : is_cache_valid(e, sclock)}
              call == [IdleSearch EXCEPT
                         !.query = query,
                         !.filters = filters,
                         !.limit = limit,
                         !.use_cache = use_cache,
                         !.cache_key = cache_key,
                         !.found_expired = (cached # {} /\ valid = {})]
          IN  IF use_cache /\ valid # {}
              THEN LET e == CHOOSE e \in valid : TRUE
                   IN  req' = [req EXCEPT ![r] =
                           [call EXCEPT
                              !.pc = "done",
                              !.how = "cache",
                              !.result = Slice(e.results, limit),
                              !.ranked_at_write = e.writes,
                              !.hit = <<e>>]]
              ELSE req' = [req EXCEPT ![r] =
                           [call EXCEPT
                              !.pc = IF hs.has_embedder THEN "embedding"
                                     ELSE IF NoEmbeddingPc = "gather"
                                     THEN "gather"
                                     ELSE OnSearchException]]
    /\ UNCHANGED <<hs, sclock>>
    /\ UNCHANGED nonSearchVars

\* await self.embedder._generate_embeddings([query]) returns a vector, or
\* nothing usable
generate_embeddings_returns(r) ==
    /\ req[r].pc = "embedding"
    /\ \E ok \in BOOLEAN :
          req' = [req EXCEPT
                    ![r].query_embedding = ok,
                    ![r].pc = IF ok \/ NoEmbeddingPc = "gather"
                              THEN "gather" ELSE OnSearchException]
    /\ UNCHANGED <<hs, sclock>>
    /\ UNCHANGED nonSearchVars

\* await self.embedder._generate_embeddings([query]) raises
generate_embeddings_raises(r) ==
    /\ req[r].pc = "embedding"
    /\ req' = [req EXCEPT ![r].embed_failed = TRUE,
                          ![r].pc = OnSearchException]
    /\ UNCHANGED <<hs, sclock>>
    /\ UNCHANGED nonSearchVars

\* asyncio.gather returns both result sets: merge, cache, return
gather_returns(r) ==
    /\ req[r].pc = "gather"
    /\ LET q == req[r]
           vector_results ==
               IF q.query_embedding
               THEN Slice(Nearest(q.filters), 2 * q.limit) ELSE <<>>
           keyword_results == Slice(Matches(q.query), 2 * q.limit)
           merged == merge_results(vector_results, keyword_results, q.limit,
                                   hs.weights)
           entry == [key |-> q.cache_key, results |-> merged,
                     cached_at |-> sclock, query |-> q.query,
                     filters |-> q.filters, writes |-> hs.writes]
       IN  /\ hs' = [hs EXCEPT !.cache =
                        {e \in @ : e.key # q.cache_key} \cup {entry}]
           /\ req' = [req EXCEPT
                        ![r].pc = "done",
                        ![r].how = "merged",
                        ![r].result = merged,
                        ![r].ranked_at_write = hs.writes]
    /\ UNCHANGED sclock
    /\ UNCHANGED nonSearchVars

\* vector_search or full_text_search raises inside asyncio.gather
gather_raises(r) ==
    /\ req[r].pc = "gather"
    /\ req' = [req EXCEPT ![r].pc = OnSearchException]
    /\ UNCHANGED <<hs, sclock>>
    /\ UNCHANGED nonSearchVars

\* the fallback: await self.db.full_text_search(query, limit) returns
full_text_search_returns(r) ==
    /\ req[r].pc = "fallback"
    /\ req' = [req EXCEPT
                 ![r].pc = "done",
                 ![r].how = "fallback",
                 ![r].result = Slice(Matches(req[r].query), req[r].limit)]
    /\ UNCHANGED <<hs, sclock>>
    /\ UNCHANGED nonSearchVars

\* the fallback raises: `except Exception: return []`
full_text_search_raises(r) ==
    /\ req[r].pc = "fallback"
    /\ req' = [req EXCEPT
                 ![r].pc = "done",
                 ![r].how = "empty",
                 ![r].keyword_failed = TRUE,
                 ![r].result = <<>>]
    /\ UNCHANGED <<hs, sclock>>
    /\ UNCHANGED nonSearchVars

\* update_weights(weights): self.weights.update(weights); clear_cache()
update_weights ==
    /\ hs.writes < MaxWeightWrites
    /\ \E w \in WeightChoices :
          hs' = [hs EXCEPT !.weights = w,
                           !.cache = search_clear_cache(@),
                           !.writes = @ + 1]
    /\ req' = [r \in Searches |->
                 IF req[r].pc \in {"embedding", "gather", "fallback"}
                 THEN [req[r] EXCEPT !.in_flight_at_write = TRUE]
                 ELSE req[r]]
    /\ UNCHANGED sclock
    /\ UNCHANGED nonSearchVars

\* time passes
search_tick ==
    /\ sclock < MaxSearchTime
    /\ sclock' = sclock + 1
    /\ UNCHANGED <<hs, req>>
    /\ UNCHANGED nonSearchVars

SearchNext ==
    \/ \E r \in Searches : search(r)
    \/ \E r \in Searches : generate_embeddings_returns(r)
    \/ \E r \in Searches : generate_embeddings_raises(r)
    \/ \E r \in Searches : gather_returns(r)
    \/ \E r \in Searches : gather_raises(r)
    \/ \E r \in Searches : full_text_search_returns(r)
    \/ \E r \in Searches : full_text_search_raises(r)
    \/ update_weights
    \/ search_tick

SearchSpec == SearchInit /\ [][SearchNext]_vars

(***************************************************************************)
(* VoyageEmbeddingService._prepare_text: the weighted text of a record.    *)
(***************************************************************************)
\* sep.join(parts)
RECURSIVE str_join(_, _)
str_join(sep, parts) ==
    IF parts = <<>> THEN <<>>
    ELSE IF Len(parts) = 1 THEN parts[1]
    ELSE parts[1] \o sep \o str_join(sep, Tail(parts))

\* [s] * n
Times(s, n) == [i \in 1..n |-> s]

\* text.count(sub): the occurrences of sub in text that do not overlap
RECURSIVE count_from(_, _, _)
count_from(text, sub, i) ==
    IF i + Len(sub) - 1 > Len(text) THEN 0
    ELSE IF SubSeq(text, i, i + Len(sub) - 1) = sub
         THEN 1 + count_from(text, sub, i + Len(sub))
         ELSE count_from(text, sub, i + 1)

str_count(text, sub) ==
    IF sub = <<>> THEN Len(text) + 1 ELSE count_from(text, sub, 1)

prepare_text(job) ==
    LET job_title == job.job_title
        title_parts ==
            IF job_title # <<>> THEN Times(job_title, 3) ELSE <<>>
        skills == job.skills_required
        skills_text ==
            IF skills.kind = "list" THEN str_join(<<",", " ">>, skills.value)
            ELSE skills.value
        skills_parts ==
            IF skills.value # <<>> THEN Times(skills_text, 2) ELSE <<>>
        description == job.job_description
        description_parts ==
            IF description # <<>>
            THEN <<Slice(description, DescriptionPrefix)>> ELSE <<>>
        industry_parts ==
            IF job.industry # <<>> THEN <<job.industry>> ELSE <<>>
        company_parts ==
            IF job.company_name # <<>> THEN <<job.company_name>> ELSE <<>>
        parts == title_parts \o skills_parts \o description_parts
                     \o industry_parts \o company_parts
        combined == str_join(<<"\n">>, parts)
    IN  Slice(combined, TextBudget)

\* job titles: none, two short ones and one a third of which fills more than
\* a third of the text
JobTitles ==
    {<<>>, <<"b", "e">>, <<"e">>,
     <<"l", "o", "n", "g", "l", "o", "n", "g", "l", "o", "n", "g">>}

\* skills_required: a list of skills, or a string
SkillSets ==
    {[kind |-> "list", value |-> <<>>],
     [kind |-> "list", value |-> <<<<"p">>, <<"g">>>>],
     [kind |-> "str", value |-> <<"p">>]}

\* descriptions: none, one that names no other field, one that names the
\* company t twice, one longer than the prefix that is kept
JobDescriptions ==
    {<<>>, <<"d">>, <<"t", "d", "t">>, <<"d", "d", "d", "d", "t">>}

Industries == {<<>>, <<"i">>}

CompanyNames == {<<>>, <<"t">>, <<"e">>}

JobRecords ==
    [job_title : JobTitles, skills_required : SkillSets,
     job_description : JobDescriptions, industry : Industries,
     company_name : CompanyNames]

PrepareInit ==
    /\ \E job \in JobRecords :
          prep = [pc |-> "input", job |-> job, text |-> <<>>]
    /\ SpiderQuiet
    /\ PipeQuiet
    /\ EmbedQuiet
    /\ ThrottleQuiet
    /\ DedupQuiet
    /\ FingerprintQuiet
    /\ StoreQuiet
    /\ CycleQuiet
    /\ MergeQuiet
    /\ SearchQuiet
    /\ ParseQuiet
    /\ JanitorQuiet
    /\ AdapterQuiet
    /\ InstancesQuiet
    /\ EmbeddingWorkerQuiet
    /\ BotWorkerQuiet

\* text = self._prepare_text(job)
call_prepare_text ==
    /\ prep.pc = "input"
    /\ prep' = [prep EXCEPT !.pc = "done", !.text = prepare_text(prep.job)]
    /\ UNCHANGED nonPrepareVars

PrepareNext == call_prepare_text

PrepareSpec == PrepareInit /\ [][PrepareNext]_vars

(***************************************************************************)
(* HiringCafeSpider._parse_job and the lines of scrape that call it.  A    *)
(* detail document is the dict _fetch_job_detail returns: page_props is    *)
(* the type of its 'pageProps' value ("absent" when it has no such key,    *)
(* and then the document itself is read), data the dict that is read,      *)
(* job_information the nested dict of that name.                           *)
(***************************************************************************)
\* n characters of plain text
PlainText(n) == [i \in 1..n |-> "x"]

\* _BR_TAG_RE, _BLOCK_TAG_RE, _ALL_TAGS_RE and unescape, on one token
ReplaceTag(token) ==
    IF token = "<br>" THEN "\n"
    ELSE IF token \in {"</p>", "</div>", "</li>"} THEN "\n"
    ELSE IF token \in {"<p>", "<div>", "<li>", "<b>", "</b>"} THEN " "
    ELSE IF token = "&amp;" THEN "&"
    ELSE token

\* re.sub of a run of the characters of cs: a run of at least least of them
\* becomes by
RECURSIVE sub_runs(_, _, _, _, _)
sub_runs(s, cs, least, by, run) ==
    LET flush == IF run = <<>> THEN <<>>
                 ELSE IF Len(run) >= least THEN by ELSE run
    IN  IF s = <<>> THEN flush
        ELSE IF Head(s) \in cs
             THEN sub_runs(Tail(s), cs, least, by, Append(run, Head(s)))
             ELSE flush \o <<Head(s)>> \o sub_runs(Tail(s), cs, least, by, <<>>)

\* _html_to_text(html)
html_to_text(html) ==
    IF html = <<>> THEN <<>>
    ELSE LET text == [i \in DOMAIN html |-> ReplaceTag(html[i])]
             spaced == sub_runs(text, {" ", "\t"}, 1, <<" ">>, <<>>)
             lined == sub_runs(spaced, {"\n"}, 3, <<"\n", "\n">>, <<>>)
         IN  strip(lined)

\* ScrapedJob(title=..., description=..., ...): whether the model accepts
\* the record
ScrapedJobValid(title, description) ==
    /\ Len(title) >= ScrapedJobMinTitle
    /\ Len(description) >= ScrapedJobMinDescription

\* `a or b`
Or(a, b) == IF a # <<>> THEN a ELSE b

\* merged = data.copy(); merged.update(nested): the keys of nested replace
\* those of data
Merged(data, nested) ==
    [title |-> Or(nested.title, data.title),
     requisition_id |-> Or(nested.requisition_id, data.requisition_id),
     description |-> Or(nested.description, data.description),
     description_clean |->
         Or(nested.description_clean, data.description_clean),
     random |-> data.random \/ nested.random]

\* `except Exception` of _parse_job: the exception is counted and None is
\* returned
OnParseException_propagates == "raised"
OnParseException == "caught"

\* what _parse_job(raw) does: what it returns, what it adds to self.errors,
\* whether it raises
ParseReturn(returned, job) ==
    [returned |-> returned, job |-> job, errors |-> 0, raised |-> FALSE]

ParseException ==
    IF OnParseException = "caught"
    THEN [returned |-> "None", job |-> <<>>, errors |-> 1, raised |-> FALSE]
    ELSE [returned |-> "none", job |-> <<>>, errors |-> 0, raised |-> TRUE]

\* raw, or raw['pageProps'], is a dict, so that data.get(...) works
raw_is_read(raw) == raw.page_props \in {"absent", "dict"}

\* data after the loop over "job" and "job_information"
merged_data(raw) ==
    IF raw.job_information.type = "dict"
    THEN Merged(raw.data, raw.job_information.items)
    ELSE raw.data

\* the plain-text description: _html_to_text of the HTML, or the alternate
\* field when that text has fewer than 10 characters
plain_description(data) ==
    LET from_html == html_to_text(data.description)
    IN  IF Len(from_html) < ParserMinDescription
        THEN Or(data.description_clean, from_html)
        ELSE from_html

parse_job(raw) ==
    IF raw = EmptyDocument THEN ParseReturn("None", <<>>)
    ELSE IF ~raw_is_read(raw) THEN ParseException
    ELSE
    LET data == merged_data(raw)
        title == data.title
        requisition_id == data.requisition_id
        description == plain_description(data)
    IN  IF title = <<>> \/ requisition_id = <<>>
        THEN ParseReturn("None", <<>>)
        ELSE IF Len(description) < ParserMinDescription
        THEN ParseReturn("None", <<>>)
        ELSE IF ~ScrapedJobValid(title, description) THEN ParseException
        ELSE ParseReturn("job", [title |-> title,
                                 requisition_id |-> requisition_id,
                                 description |-> description])

\* the texts of the documents of the model
DocTitles == {<<>>, <<"A", "B">>, <<"D", "e", "v">>}

DocIds == {<<>>, <<"r", "1">>}

DocDescriptions ==
    {<<>>,
     <<"<p>">> \o PlainText(ParserMinDescription - 1) \o <<"</p>">>,
     <<"<p>">> \o PlainText(4) \o <<"<br>">> \o PlainText(5) \o <<"</p>">>,
     <<"<p>">> \o PlainText(ParserMinDescription) \o <<"</p>">>,
     <<"<p>">> \o PlainText(ScrapedJobMinDescription - 1) \o <<"</p>">>,
     <<"<div>", "<p>">> \o PlainText(ScrapedJobMinDescription)
         \o <<"</p>", "</div>">>}

DocCleanDescriptions ==
    {<<>>, PlainText(ParserMinDescription + 2),
     PlainText(ScrapedJobMinDescription + 5)}

DocDicts ==
    [title : DocTitles, requisition_id : DocIds,
     description : DocDescriptions,
     description_clean : DocCleanDescriptions, random : BOOLEAN]

NestedDicts ==
    {NoDict,
     [type |-> "str", items |-> NoFields],
     [type |-> "dict", items |-> [NoFields EXCEPT !.title = <<"D", "e", "v">>]],
     [type |-> "dict", items |-> [NoFields EXCEPT !.requisition_id = <<"x">>]]}

\* the detail documents: a dict read as it is or under 'pageProps', and
\* documents whose 'pageProps' is null or a string
Documents ==
    [page_props : {"absent", "dict"}, data : DocDicts,
     job_information : NestedDicts]
    \cup [page_props : {"null", "str"}, data : {NoFields},
          job_information : {NoDict}]

ParseInit ==
    /\ \E raw \in Documents :
          parse = [pc |-> "input", raw |-> raw, returned |-> "none",
                   raised |-> FALSE, errors |-> 0, jobs_found |-> 0,
                   yielded |-> <<>>]
    /\ SpiderQuiet
    /\ PipeQuiet
    /\ EmbedQuiet
    /\ ThrottleQuiet
    /\ DedupQuiet
    /\ FingerprintQuiet
    /\ StoreQuiet
    /\ CycleQuiet
    /\ MergeQuiet
    /\ SearchQuiet
    /\ PrepareQuiet
    /\ JanitorQuiet
    /\ AdapterQuiet
    /\ InstancesQuiet
    /\ EmbeddingWorkerQuiet
    /\ BotWorkerQuiet

\* job = self._parse_job(result); if job: self.jobs_found += 1; yield job
call_parse_job ==
    /\ parse.pc = "input"
    /\ LET out == parse_job(parse.raw)
       IN  parse' = [parse EXCEPT
                       !.pc = "returned",
                       !.returned = out.returned,
                       !.raised = out.raised,
                       !.errors = @ + out.errors,
                       !.jobs_found =
                           IF out.returned = "job" THEN @ + 1 ELSE @,
                       !.yielded =
                           IF out.returned = "job" THEN Append(@, out.job)
                           ELSE @]
    /\ UNCHANGED nonParseVars

ParseNext == call_parse_job

ParseSpec == ParseInit /\ [][ParseNext]_vars

(***************************************************************************)
(* JanitorService.run_maintenance and its seven tasks.  A call of the      *)
(* store returns or raises; a statement that raises changes no row.        *)
(***************************************************************************)
\* what one cleanup statement of the store does
StoreResults ==
    {[raised |-> TRUE, count |-> 0]}
    \cup {[raised |-> FALSE, count |-> c] : c \in 0..MaxRemoved}

\* try: count = await self.db.<statement>(); return count
\* except Exception: return 0
count_or_zero(result) == IF result.raised THEN 0 ELSE result.count

\* remove_invalid_jobs, `except Exception: return total_removed`
OnRemoveInvalidException_zero(total_removed) == 0
OnRemoveInvalidException(total_removed) == total_removed

\* the loop of remove_invalid_jobs over a table with `invalid` invalid rows,
\* the fail_at-th statement raising (0: none does): what it returns and the
\* rows it has deleted
RECURSIVE remove_invalid_loop(_, _, _, _)
remove_invalid_loop(invalid, total_removed, statement, fail_at) ==
    IF statement = fail_at
    THEN [returned |-> OnRemoveInvalidException(total_removed),
          deleted |-> total_removed, raised |-> TRUE]
    ELSE LET count == IF invalid < CleanupBatchSize THEN invalid
                      ELSE CleanupBatchSize
         IN  IF count < CleanupBatchSize
             THEN [returned |-> total_removed + count,
                   deleted |-> total_removed + count, raised |-> FALSE]
             ELSE remove_invalid_loop(invalid - count, total_removed + count,
                                      statement + 1, fail_at)

\* the jobs get_jobs_for_validation returns: whether the job has an
\* application_link and whether a HEAD request to it answers 200
ValidationJobs ==
    UNION {[1..n -> {"valid", "invalid", "no_url"}] : n \in 0..MaxValidated}

\* the loop of validate_job_urls over jobs, the fail_at-th
\* update_validation_status raising (0: none does): the stats when it ends
RECURSIVE validate_loop(_, _, _, _, _)
validate_loop(jobs, i, stats, updates, fail_at) ==
    IF i > Len(jobs) THEN [stats |-> stats, raised |-> FALSE]
    ELSE IF jobs[i] = "no_url"
    THEN validate_loop(jobs, i + 1, stats, updates, fail_at)
    ELSE LET counted ==
                 [validated |-> stats.validated + 1,
                  valid |-> stats.valid + (IF jobs[i] = "valid" THEN 1 ELSE 0),
                  invalid |->
                      stats.invalid + (IF jobs[i] = "invalid" THEN 1 ELSE 0)]
         IN  IF updates + 1 = fail_at
             THEN [stats |-> counted, raised |-> TRUE]
             ELSE validate_loop(jobs, i + 1, counted, updates + 1, fail_at)

JanitorInit ==
    /\ \E n \in 0..MaxInvalidRows :
          jan = [pc |-> "idle", url_validation |-> ZeroStats,
                 counts |-> [t \in CountTasks |-> 0],
                 descriptions_sanitized |-> FALSE, success |-> "unset",
                 ran |-> <<>>, failed |-> {}, invalid_rows |-> n,
                 invalid_deleted |-> 0, checked |-> 0]
    /\ SpiderQuiet
    /\ PipeQuiet
    /\ EmbedQuiet
    /\ ThrottleQuiet
    /\ DedupQuiet
    /\ FingerprintQuiet
    /\ StoreQuiet
    /\ CycleQuiet
    /\ MergeQuiet
    /\ SearchQuiet
    /\ PrepareQuiet
    /\ ParseQuiet
    /\ AdapterQuiet
    /\ InstancesQuiet
    /\ EmbeddingWorkerQuiet
    /\ BotWorkerQuiet

\* run_maintenance is called
run_maintenance ==
    /\ jan.pc = "idle"
    /\ jan' = [jan EXCEPT !.pc = "url_validation"]
    /\ UNCHANGED nonJanitorVars

\* Task 1: get_jobs_for_validation raises, or the loop runs and one of its
\* update_validation_status calls may raise
validate_job_urls ==
    /\ jan.pc = "url_validation"
    /\ \/ jan' = [jan EXCEPT !.pc = "expired_removed",
                             !.url_validation = ZeroStats,
                             !.ran = Append(@, "url_validation"),
                             !.failed = @ \cup {"url_validation"}]
       \/ \E jobs \in ValidationJobs, fail_at \in 0..MaxValidated :
             LET out == validate_loop(jobs, 1, ZeroStats, 0, fail_at)
             IN  jan' = [jan EXCEPT
                           !.pc = "expired_removed",
                           !.url_validation = out.stats,
                           !.checked =
                               Cardinality({i \in DOMAIN jobs :
                                               jobs[i] # "no_url"}),
                           !.ran = Append(@, "url_validation"),
                           !.failed = IF out.raised
                                      THEN @ \cup {"url_validation"} ELSE @]
    /\ UNCHANGED nonJanitorVars

\* a task of one statement: Task 2, 3, 5 and 6
CountTask(key, next) ==
    /\ jan.pc = key
    /\ \E result \in StoreResults :
          jan' = [jan EXCEPT
                    !.pc = next,
                    !.counts[key] = count_or_zero(result),
                    !.ran = Append(@, key),
                    !.failed = IF result.raised THEN @ \cup {key} ELSE @]
    /\ UNCHANGED nonJanitorVars

remove_expired_jobs ==
    /\ jan.pc = "expired_removed"
    /\ CountTask("expired_removed", "old_removed")

remove_old_jobs ==
    /\ jan.pc = "old_removed"
    /\ CountTask("old_removed", "invalid_removed")

\* Task 4
remove_invalid_jobs ==
    /\ jan.pc = "invalid_removed"
    /\ \E fail_at \in 0..(MaxInvalidRows \div CleanupBatchSize + 1) :
          LET out == remove_invalid_loop(jan.invalid_rows, 0, 1, fail_at)
          IN  jan' = [jan EXCEPT
                        !.pc = "duplicates_removed",
                        !.counts["invalid_removed"] = out.returned,
                        !.invalid_rows = @ - out.deleted,
                        !.invalid_deleted = out.deleted,
                        !.ran = Append(@, "invalid_removed"),
                        !.failed = IF out.raised
                                   THEN @ \cup {"invalid_removed"} ELSE @]
    /\ UNCHANGED nonJanitorVars

remove_duplicates ==
    /\ jan.pc = "duplicates_removed"
    /\ CountTask("duplicates_removed", "orphan_embeddings_cleaned")

cleanup_orphan_embeddings ==
    /\ jan.pc = "orphan_embeddings_cleaned"
    /\ CountTask("orphan_embeddings_cleaned", "descriptions_sanitized")

\* Task 7: the statement returns or raises; summary['tasks']
\* ['descriptions_sanitized'] = True either way
sanitize_descriptions ==
    /\ jan.pc = "descriptions_sanitized"
    /\ \E raised \in BOOLEAN :
          jan' = [jan EXCEPT
                    !.pc = "completed",
                    !.descriptions_sanitized = TRUE,
                    !.ran = Append(@, "descriptions_sanitized"),
                    !.failed = IF raised
                               THEN @ \cup {"descriptions_sanitized"} ELSE @]
    /\ UNCHANGED nonJanitorVars

\* summary['success'] = True; return summary
run_maintenance_returns ==
    /\ jan.pc = "completed"
    /\ jan' = [jan EXCEPT !.pc = "done", !.success = "true"]
    /\ UNCHANGED nonJanitorVars

JanitorNext ==
    \/ run_maintenance
    \/ validate_job_urls
    \/ remove_expired_jobs
    \/ remove_old_jobs
    \/ remove_invalid_jobs
    \/ remove_duplicates
    \/ cleanup_orphan_embeddings
    \/ sanitize_descriptions
    \/ run_maintenance_returns

JanitorSpec == JanitorInit /\ [][JanitorNext]_vars

(***************************************************************************)
(* ScrapyPipelineAdapter: process_item calls, which Scrapy runs as         *)
(* overlapping coroutines, and close_spider after them.  self._batch       *)
(* refers to a list object; process_batch is handed that object, not a     *)
(* copy.  Call c > 0 is process_item of item c, call 0 is close_spider.    *)
(***************************************************************************)
AdapterInit ==
    /\ \E n \in 1..MaxItems :
          adp = [n |-> n, lists |-> << <<>> >>, batch |-> 1,
                 calls |-> [c \in 0..MaxItems |-> NewCall], batches |-> <<>>]
    /\ SpiderQuiet
    /\ PipeQuiet
    /\ EmbedQuiet
    /\ ThrottleQuiet
    /\ DedupQuiet
    /\ FingerprintQuiet
    /\ StoreQuiet
    /\ CycleQuiet
    /\ MergeQuiet
    /\ SearchQuiet
    /\ PrepareQuiet
    /\ ParseQuiet
    /\ JanitorQuiet
    /\ InstancesQuiet
    /\ EmbeddingWorkerQuiet
    /\ BotWorkerQuiet

\* `if len(self._batch) >= self._batch_size` after the append
BatchIsFull(items) == Len(items) >= AdapterBatchSize

\* `await self.pipeline.process_batch(self._batch)` begins in call c: the
\* loop `for job in jobs` takes the first job of the list object and
\* suspends in the store lookup of _deduplicate_job
call_process_batch(a, c) ==
    [a EXCEPT !.calls[c] = [pc |-> "loop", jobs |-> a.batch, idx |-> 1,
                            no |-> Len(a.batches) + 1],
              !.batches = Append(@, <<a.lists[a.batch][1]>>)]

\* process_item(item, spider) up to its first suspension
process_item(c) ==
    /\ c \in 1..adp.n
    /\ adp.calls[c].pc = "new"
    /\ adp.calls[0].pc = "new"
    /\ \A d \in 1..(c - 1) : adp.calls[d].pc # "new"
    /\ LET appended == [adp EXCEPT !.lists[adp.batch] = Append(@, c)]
       IN  adp' = IF BatchIsFull(appended.lists[appended.batch])
                  THEN call_process_batch(appended, c)
                  ELSE [appended EXCEPT !.calls[c].pc = "done"]
    /\ UNCHANGED nonAdapterVars

\* close_spider(spider), once no process_item call is in progress
close_spider ==
    /\ adp.calls[0].pc = "new"
    /\ \A c \in 1..adp.n : adp.calls[c].pc = "done"
    /\ adp' = IF adp.lists[adp.batch] # <<>>
              THEN call_process_batch(adp, 0)
              ELSE [adp EXCEPT !.calls[0].pc = "done"]
    /\ UNCHANGED nonAdapterVars

\* process_batch of call c resumes in its loop: the next job of the list
\* object as it is now, or the loop ends and embedding and storing begin
process_batch_loop(c) ==
    /\ adp.calls[c].pc = "loop"
    /\ LET call == adp.calls[c]
           jobs == adp.lists[call.jobs]
       IN  adp' = IF call.idx < Len(jobs)
                  THEN [adp EXCEPT
                          !.calls[c].idx = @ + 1,
                          !.batches[call.no] = Append(@, jobs[call.idx + 1])]
                  ELSE [adp EXCEPT !.calls[c].pc = "store"]
    /\ UNCHANGED nonAdapterVars

\* process_batch of call c returns; `self._batch = []` binds a new list
adapter_process_batch_returns(c) ==
    /\ adp.calls[c].pc = "store"
    /\ adp' = [adp EXCEPT !.calls[c].pc = "done",
                          !.lists = Append(@, <<>>),
                          !.batch = Len(adp.lists) + 1]
    /\ UNCHANGED nonAdapterVars

AdapterNext ==
    \/ \E c \in 1..MaxItems : process_item(c)
    \/ close_spider
    \/ \E c \in 0..MaxItems : process_batch_loop(c)
    \/ \E c \in 0..MaxItems : adapter_process_batch_returns(c)

AdapterSpec == AdapterInit /\ [][AdapterNext]_vars

(***************************************************************************)
(* Several HybridSearch objects.  A dict is an object: hsi.dicts holds the *)
(* dict objects, and self.weights of an instance is a reference to one.    *)
(***************************************************************************)
InstancesInit ==
    /\ hsi = [dicts |-> <<DEFAULT_WEIGHTS>>, objs |-> <<>>, updates |-> 0]
    /\ SpiderQuiet
    /\ PipeQuiet
    /\ EmbedQuiet
    /\ ThrottleQuiet
    /\ DedupQuiet
    /\ FingerprintQuiet
    /\ StoreQuiet
    /\ CycleQuiet
    /\ MergeQuiet
    /\ SearchQuiet
    /\ PrepareQuiet
    /\ ParseQuiet
    /\ JanitorQuiet
    /\ AdapterQuiet
    /\ EmbeddingWorkerQuiet
    /\ BotWorkerQuiet

\* the weights argument of the constructor: None, or a dict of the caller
ExplicitWeights ==
    {[vector_similarity |-> 5, keyword_match |-> 5, freshness |-> 0]}

\* the argument of update_weights: a dict as its items
WeightUpdates ==
    {<<[k |-> "vector_similarity", v |-> 0]>>,
     <<[k |-> "keyword_match", v |-> 6]>>,
     <<[k |-> "vector_similarity", v |-> 3], [k |-> "keyword_match", v |-> 6]>>}

\* dict.update(items): in place
RECURSIVE dict_update(_, _)
dict_update(d, items) ==
    IF items = <<>> THEN d
    ELSE dict_update([d EXCEPT ![Head(items).k] = Head(items).v], Tail(items))

\* HybridSearch(database, embedder): self.weights = weights or
\* self.DEFAULT_WEIGHTS; self.cache = {}
HybridSearch_init ==
    /\ Len(hsi.objs) < MaxInstances
    /\ \/ hsi' = [hsi EXCEPT
                    !.objs = Append(@, [weights |-> 1, cache_cleared |-> 0])]
       \/ \E w \in ExplicitWeights :
             hsi' = [hsi EXCEPT
                       !.dicts = Append(@, w),
                       !.objs = Append(@, [weights |-> Len(hsi.dicts) + 1,
                                           cache_cleared |-> 0])]
    /\ UNCHANGED nonInstancesVars

\* update_weights(weights) on instance i: self.weights.update(weights);
\* self.clear_cache()
instance_update_weights(i) ==
    /\ i \in DOMAIN hsi.objs
    /\ hsi.updates < MaxInstanceUpdates
    /\ \E items \in WeightUpdates :
          hsi' = [hsi EXCEPT
                    !.dicts[hsi.objs[i].weights] = dict_update(@, items),
                    !.objs[i].cache_cleared = @ + 1,
                    !.updates = @ + 1]
    /\ UNCHANGED nonInstancesVars

InstancesNext ==
    \/ HybridSearch_init
    \/ \E i \in 1..MaxInstances : instance_update_weights(i)

InstancesSpec == InstancesInit /\ [][InstancesNext]_vars

(***************************************************************************)
(* EmbeddingWorker.start and the records stored without an embedding.      *)
(* ew.bad[r] tells that the provider rejects every call that carries the   *)
(* text of record r.                                                       *)
(***************************************************************************)
EmbeddingWorkerInit ==
    /\ ew = [pc |-> "fetch", jobs |-> {}, updates |-> {},
             table |-> [r \in 1..MaxRecords |-> "absent"],
             bad |-> [r \in 1..MaxRecords |-> FALSE]]
    /\ SpiderQuiet
    /\ PipeQuiet
    /\ EmbedQuiet
    /\ ThrottleQuiet
    /\ DedupQuiet
    /\ FingerprintQuiet
    /\ StoreQuiet
    /\ CycleQuiet
    /\ MergeQuiet
    /\ SearchQuiet
    /\ PrepareQuiet
    /\ ParseQuiet
    /\ JanitorQuiet
    /\ AdapterQuiet
    /\ InstancesQuiet
    /\ BotWorkerQuiet

\* WHERE embedding IS NULL AND is_valid = TRUE
NullEmbedding(table) == {r \in DOMAIN table : table[r] = "null"}

\* ... LIMIT $1, without ORDER BY: any `limit` of the rows, or all of them
\* when there are fewer
LimitedRows(matching, limit) ==
    {w \in SUBSET matching :
        Cardinality(w) = IF Cardinality(matching) < limit
                         THEN Cardinality(matching) ELSE limit}

\* _store_job inserts a valid record with a null embedding
insert_without_embedding(r) ==
    /\ ew.table[r] = "absent"
    /\ \A q \in 1..(r - 1) : ew.table[q] # "absent"
    /\ \E b \in BOOLEAN :
          ew' = [ew EXCEPT !.table[r] = "null", !.bad[r] = b]
    /\ UNCHANGED nonEmbeddingWorkerVars

\* jobs = await self.db.get_jobs_without_embeddings(self.batch_size)
worker_fetch ==
    /\ ew.pc = "fetch"
    /\ \E jobs \in LimitedRows(NullEmbedding(ew.table), WorkerBatchSize) :
          ew' = [ew EXCEPT !.jobs = jobs, !.updates = {},
                           !.pc = IF jobs = {} THEN "sleep" ELSE "embed"]
    /\ UNCHANGED nonEmbeddingWorkerVars

\* embed_jobs(jobs) returns the jobs with their vectors
worker_embed_jobs_returns ==
    /\ ew.pc = "embed"
    /\ \A r \in ew.jobs : ~ew.bad[r]
    /\ ew' = [ew EXCEPT !.updates = ew.jobs, !.pc = "update"]
    /\ UNCHANGED nonEmbeddingWorkerVars

\* a provider call of embed_jobs(jobs) used up its attempts: every job of
\* the call comes back with embedding None, `updates` is empty
worker_embed_jobs_fails ==
    /\ ew.pc = "embed"
    /\ ew' = [ew EXCEPT !.updates = {}, !.pc = "sleep"]
    /\ UNCHANGED nonEmbeddingWorkerVars

\* await self.db.update_embeddings_batch(updates)
worker_update_embeddings_batch ==
    /\ ew.pc = "update"
    /\ ew' = [ew EXCEPT
                !.table = [r \in DOMAIN @ |->
                              IF r \in ew.updates THEN "embedded" ELSE @[r]],
                !.pc = "sleep"]
    /\ UNCHANGED nonEmbeddingWorkerVars

\* await asyncio.sleep(self.interval) returns; `while self.running`
worker_sleep_returns ==
    /\ ew.pc = "sleep"
    /\ ew' = [ew EXCEPT !.pc = "fetch", !.jobs = {}, !.updates = {}]
    /\ UNCHANGED nonEmbeddingWorkerVars

EmbeddingWorkerNext ==
    \/ \E r \in 1..MaxRecords : insert_without_embedding(r)
    \/ worker_fetch
    \/ worker_embed_jobs_returns
    \/ worker_embed_jobs_fails
    \/ worker_update_embeddings_batch
    \/ worker_sleep_returns

EmbeddingWorkerSpec ==
    EmbeddingWorkerInit /\ [][EmbeddingWorkerNext]_vars

\* the worker keeps running, and the provider does not fail for ever on
\* calls that carry no rejected text
EmbeddingWorkerFairSpec ==
    /\ EmbeddingWorkerSpec
    /\ WF_vars(worker_fetch)
    /\ WF_vars(worker_embed_jobs_returns \/ worker_embed_jobs_fails)
    /\ SF_vars(worker_embed_jobs_returns)
    /\ WF_vars(worker_update_embeddings_batch)
    /\ WF_vars(worker_sleep_returns)

(***************************************************************************)
(* The notification worker of the bot: worker_loop over the waiting and    *)
(* the active list of the queue.  A Redis command returns or raises.       *)
(***************************************************************************)
\* what the hash of a job holds under "data": nothing under either key,
\* text that is not JSON, a JSON object, or JSON that is not an object
JobDataKinds == {"none", "not_json", "object", "not_object"}

BotWorkerInit ==
    /\ bw = [pc |-> "top", waiting |-> <<>>, active |-> <<>>, job_id |-> 0,
             raw_data |-> "none", added |-> 0,
             processed |-> [j \in 1..MaxQueued |-> 0],
             pops |-> [j \in 1..MaxQueued |-> 0],
             data |-> [j \in 1..MaxQueued |-> "none"]]
    /\ SpiderQuiet
    /\ PipeQuiet
    /\ EmbedQuiet
    /\ ThrottleQuiet
    /\ DedupQuiet
    /\ FingerprintQuiet
    /\ StoreQuiet
    /\ CycleQuiet
    /\ MergeQuiet
    /\ SearchQuiet
    /\ PrepareQuiet
    /\ ParseQuiet
    /\ JanitorQuiet
    /\ AdapterQuiet
    /\ InstancesQuiet
    /\ EmbeddingWorkerQuiet

\* `except Exception` of worker_loop: log, sleep 5, next iteration
OnWorkerLoopException(b) == [b EXCEPT !.pc = "sleep"]

\* LREM key 1 value: the first occurrence of value is removed
RECURSIVE lrem_one(_, _)
lrem_one(list, value) ==
    IF list = <<>> THEN <<>>
    ELSE IF Head(list) = value THEN Tail(list)
    ELSE <<Head(list)>> \o lrem_one(Tail(list), value)

\* the producer adds a job: its hash, and LPUSH of its id on the waiting
\* list
queue_add ==
    /\ bw.added < MaxQueued
    /\ \E kind \in JobDataKinds :
          bw' = [bw EXCEPT !.added = @ + 1,
                           !.data[bw.added + 1] = kind,
                           !.waiting = <<bw.added + 1>> \o @]
    /\ UNCHANGED nonBotWorkerVars

\* the top of the loop: llen, llen, rpoplpush(WAITING_KEY, ACTIVE_KEY),
\* which moves the tail of the waiting list to the head of the active list
rpoplpush ==
    /\ bw.pc = "top"
    /\ \/ bw' = OnWorkerLoopException([bw EXCEPT !.job_id = 0])
       \/ bw' = IF bw.waiting = <<>>
                THEN [bw EXCEPT !.pc = "sleep", !.job_id = 0]
                ELSE LET job_id == bw.waiting[Len(bw.waiting)]
                     IN  [bw EXCEPT
                            !.waiting = SubSeq(@, 1, Len(@) - 1),
                            !.active = <<job_id>> \o @,
                            !.job_id = job_id,
                            !.pops[job_id] = @ + 1,
                            !.pc = "hget"]
    /\ UNCHANGED nonBotWorkerVars

\* raw_data = await r.hget(job_key, "data"), then the legacy key; with data
\* json.loads follows, whose JSONDecodeError is caught
hget ==
    /\ bw.pc = "hget"
    /\ \/ bw' = OnWorkerLoopException(bw)
       \/ bw' = [bw EXCEPT
                   !.raw_data = bw.data[bw.job_id],
                   !.pc = IF bw.data[bw.job_id] \in {"none", "not_json"}
                          THEN "lrem" ELSE "process"]
    /\ UNCHANGED nonBotWorkerVars

\* await process_notification(job_data, bot): job_data.get raises when
\* job_data is not a dict; otherwise it returns, or an exception leaves it
\* from one of its except clauses (set_inactive)
process_notification ==
    /\ bw.pc = "process"
    /\ \/ /\ bw.raw_data = "object"
          /\ bw' = [bw EXCEPT !.processed[bw.job_id] = @ + 1, !.pc = "lrem"]
       \/ bw' = OnWorkerLoopException(
                    [bw EXCEPT !.processed[bw.job_id] = @ + 1])
    /\ UNCHANGED nonBotWorkerVars

\* await r.lrem(ACTIVE_KEY, 1, job_id)
lrem ==
    /\ bw.pc = "lrem"
    /\ \/ bw' = OnWorkerLoopException(bw)
       \/ bw' = [bw EXCEPT !.active = lrem_one(@, bw.job_id), !.pc = "top"]
    /\ UNCHANGED nonBotWorkerVars

\* asyncio.sleep returns: the next iteration
bot_sleep_returns ==
    /\ bw.pc = "sleep"
    /\ bw' = [bw EXCEPT !.pc = "top"]
    /\ UNCHANGED nonBotWorkerVars

BotWorkerNext ==
    \/ queue_add
    \/ rpoplpush
    \/ hget
    \/ process_notification
    \/ lrem
    \/ bot_sleep_returns

BotWorkerSpec == BotWorkerInit /\ [][BotWorkerNext]_vars

(***************************************************************************)
(* Deduplication and storage.                                              *)
(***************************************************************************)
RowsWithKey(rs, jid) ==
    {i \in 1..Len(rs) : rs[i].job_id = jid /\ rs[i].is_valid}

\* C1: whatever process_job / process_batch calls, cache resets and
\* embedding-worker steps have happened, no two active rows of the jobs
\* table carry the same key; a row is only ever added for a key the table
\* does not hold yet, and the rows already there keep their keys.
C1_OneActiveRowPerKey ==
    /\ [](\A i, j \in 1..Len(rows) :
            (i # j /\ rows[i].is_valid /\ rows[j].is_valid)
                => rows[i].job_id # rows[j].job_id)
    /\ [][/\ Len(rows') >= Len(rows)
          /\ \A i \in 1..Len(rows) : rows'[i].job_id = rows[i].job_id
          /\ Len(rows') > Len(rows)
                => RowsWithKey(rows, rows'[Len(rows')].job_id) = {}]_vars

C1_Witness ==
    /\ \E i \in 1..Len(rows) : rows[i].updated_by = "on_conflict"
    /\ \E f \in cache : fingerprint_exists(rows, f)
    /\ worker.pc = "embed"

\* C2 (as claimed): of two process_job calls that run concurrently on
\* candidates with the same fingerprint, at most one gets the verdict
\* "not a duplicate".
C2_AtomicCheckAndMark ==
    \A t1, t2 \in Tasks :
        (/\ t1 # t2
         /\ task[t1].kind = "job" /\ task[t2].kind = "job"
         /\ task[t1].fp = task[t2].fp)
        => ~(task[t1].verdicts = <<"new">> /\ task[t2].verdicts = <<"new">>)

\* the key occurs at two positions of the batch, on candidates that pass
\* cleaning, and was not in the store when the call began
TwiceInBatch(tr, i, j) ==
    /\ i \in 1..Len(tr.batch) /\ j \in 1..Len(tr.batch) /\ i < j
    /\ clean_ok(tr.batch[i]) /\ clean_ok(tr.batch[j])
    /\ Fingerprint(tr.batch[i]) = Fingerprint(tr.batch[j])
    /\ Fingerprint(tr.batch[i]) \in tr.fresh

\* C3 (as claimed): when a process_batch call that ran alone returns, a key
\* that was not in the store and came twice in its batch (the same
\* candidate, or two that differ only in casing or punctuation) has
\* exactly one stored record and the second occurrence was counted in
\* duplicates_skipped.
C3_OneStoredPerRepeatedKey ==
    [][\A t \in Tasks :
          (/\ task[t].kind = "batch"
           /\ task[t].solo
           /\ task'[t].pc = "done")
          => \A i, j \in 1..Len(task[t].batch) :
                TwiceInBatch(task[t], i, j)
                => /\ Cardinality(RowsWithKey(rows',
                          job_id_of(Fingerprint(task[t].batch[i])))) = 1
                   /\ metrics'.duplicates_skipped > task[t].dup0]_vars

\* the batch positions of the jobs handed to embed_jobs
EmbedInput(tr) == {tr.to_embed[i].pos : i \in 1..Len(tr.to_embed)}

\* C4: every job handed to the embedding client, in process_job and in
\* process_batch, is one that _deduplicate_job let pass, and when the
\* embedding request of a call is issued every candidate of the call
\* already has its verdict.
C4_NoEmbeddingForDuplicates ==
    \A t \in Tasks :
        /\ task[t].pc = "embed"
              => /\ Len(task[t].verdicts) = Len(task[t].batch)
                 /\ \A p \in EmbedInput(task[t]) :
                       task[t].verdicts[p] = "new"
        /\ \A p \in task[t].embedded :
              /\ Len(task[t].verdicts) = Len(task[t].batch)
              /\ task[t].verdicts[p] = "new"

C4_Witness ==
    \E t \in Tasks :
        /\ task[t].kind = "batch"
        /\ task[t].pc = "store"
        /\ task[t].embedded # {}
        /\ \E p \in 1..Len(task[t].verdicts) :
              task[t].verdicts[p] = "dup" /\ p \notin task[t].embedded

(***************************************************************************)
(* Discovery spider: pagination, retries, failure scope.                   *)
(***************************************************************************)
C5_Offsets ==
    \A i \in 1..Len(offsets_req) : offsets_req[i] = (i - 1) * PageSize

C5_NoStopConditionYet ==
    sPc = "search" =>
        /\ \A i \in 1..Len(pages_seen) : pages_seen[i] # <<>>
        /\ ~(total # 0 /\ offset >= total)
        /\ page_num < MaxPages

C5_StopReasons ==
    /\ stop_reason = "empty" =>
           pages_seen # <<>> /\ pages_seen[Len(pages_seen)] = <<>>
    /\ stop_reason = "total" => total # 0 /\ offset >= total
    /\ stop_reason = "ceiling" => page_num = MaxPages
    /\ stop_reason \in {"search_exhausted", "search_error"}
           => search_failures > 0
    /\ (sPc \in {"done", "closed"} /\ build_id # 0)
           => stop_reason # "none"

C5_AtMostMaxPages ==
    /\ Len(offsets_req) <= MaxPages
    /\ pages_scraped <= MaxPages
    /\ page_num <= MaxPages

\* the most steps one page can take: the attempts of its search request,
\* the attempts of the detail request of each of its cards, the page's end
C5_PageSteps == 2 * SearchAttempts + 2 * DetailAttempts * PageSize + 1

C5_PagesLeft == (MaxPages - page_num - 1) * C5_PageSteps

\* the most steps the run can still take
C5_StepsLeft ==
    CASE sPc = "closed" -> 0
      [] sPc \in {"done", "raised"} -> 1
      [] sPc = "init" ->
            MaxPages * C5_PageSteps + 3 + (DiscoverAttempts - discover_attempt)
      [] sPc = "count" -> MaxPages * C5_PageSteps + 2
      [] sPc = "search" ->
            C5_PagesLeft + 2 + 2 * DetailAttempts * PageSize
                + 2 * (SearchAttempts - search_attempt)
      [] sPc = "search_handle" ->
            C5_PagesLeft + 2 + 2 * DetailAttempts * PageSize
                + 2 * (SearchAttempts - search_attempt) + 1
      [] sPc = "detail" ->
            C5_PagesLeft + 2
                + 2 * DetailAttempts * (Len(page_req_ids) - ridx)
                + 2 * (DetailAttempts - detail_attempt)
      [] sPc = "detail_handle" ->
            C5_PagesLeft + 2
                + 2 * DetailAttempts * (Len(page_req_ids) - ridx)
                + 2 * (DetailAttempts - detail_attempt) + 1
      [] OTHER -> C5_PagesLeft + 2

\* C5: scrape requests search pages at offsets 0, page_size, 2*page_size,
\* ...; it requests a further page only while no page was empty, the
\* running offset is below the reported non-zero total and fewer than
\* max_pages pages were processed, and a loop left for one of these reasons
\* was left with that condition true; it never processes more than
\* max_pages pages; and the run terminates: every step lowers a bound on
\* the steps still to come, and only the finished run has no next step.
C5_PaginationTerminates ==
    /\ [](C5_Offsets /\ C5_NoStopConditionYet /\ C5_StopReasons
          /\ C5_AtMostMaxPages)
    /\ [](C5_StepsLeft >= 0 /\ (sPc # "closed" => ENABLED SpiderNext))
    /\ [][C5_StepsLeft' < C5_StepsLeft]_vars

C5_Witness ==
    /\ sPc = "closed"
    /\ stop_reason = "ceiling"
    /\ Len(offsets_req) = MaxPages
    /\ pages_scraped = MaxPages

\* C6: against a mock endpoint that reports no total and returns k full
\* pages of new cards and then an empty page (k < max_pages), a scrape
\* that found its build identifier and finished has discovered exactly
\* k*page_size identifiers with exactly k+1 search requests and has left
\* the loop on the empty page, below the page ceiling.
C6_MockSourceDiscovery ==
    (server.scripted /\ build_id # 0 /\ sPc \in {"done", "closed"}) =>
        /\ Len(all_req_ids) = server.full * PageSize
        /\ search_requests = server.full + 1
        /\ stop_reason = "empty"
        /\ page_num = server.full
        /\ page_num < MaxPages

C6_Witness ==
    /\ server.scripted
    /\ server.full = MaxPages - 1
    /\ sPc = "closed"
    /\ Len(all_req_ids) = (MaxPages - 1) * PageSize
    /\ search_requests = MaxPages

\* C7 (as claimed): a detail fetch answered 404 is followed by one refresh
\* of the build identifier and one retry of the same identifier.
C7_RefreshAndRetryOn404 ==
    [][(sPc = "detail_handle" /\ detail_resp = "not_found")
        => (/\ refreshes' = refreshes + 1
            /\ sPc' = "detail"
            /\ ridx' = ridx)]_vars

\* C8 (as claimed): a search or detail request that fails with a transient
\* network error, a timeout or a 429 is retried unless its attempts (5 for
\* a search page, 3 for a detail fetch) are used up, and no request is
\* attempted more often than that.
C8_TransientFailuresRetried ==
    /\ [](search_attempt <= SearchAttempts /\ detail_attempt <= DetailAttempts)
    /\ [][(/\ sPc = "search_handle"
           /\ search_resp.status \in {"rate_limited", "transient"}
           /\ search_attempt < SearchAttempts)
          => (sPc' = "search" /\ offset' = offset)]_vars
    /\ [][(/\ sPc = "detail_handle"
           /\ detail_resp \in {"rate_limited", "goto_exception"}
           /\ detail_attempt < DetailAttempts)
          => (sPc' = "detail" /\ ridx' = ridx)]_vars

IsPrefix(a, b) == Len(a) <= Len(b) /\ SubSeq(b, 1, Len(a)) = a

SearchGivenUp == stop_reason = "search_exhausted"

DetailGivenUp ==
    /\ sPc = "detail_handle"
    /\ detail_resp = "rate_limited"
    /\ detail_attempt = DetailAttempts

\* C9: once the retries of a search page are exhausted, no further search
\* or detail request is issued, scrape ends without raising and the jobs
\* yielded so far are exactly what process_batch receives; when the
\* retries of one detail fetch are exhausted, only that identifier is
\* dropped (one error, nothing yielded) and the spider goes on with the
\* next identifier of the page, or with the end of the page when it was
\* the last, the pagination loop being left for no such reason.
C9_NarrowFailureScope ==
    /\ [](SearchGivenUp =>
            /\ sPc \in {"done", "closed"}
            /\ (sPc = "closed" =>
                  /\ handed = jobs_list
                  /\ batch_called = (jobs_list # <<>>)))
    /\ [][SearchGivenUp =>
            /\ search_requests' = search_requests
            /\ detail_resp' = "none"
            /\ jobs_list' = jobs_list]_vars
    /\ [][IsPrefix(jobs_list, jobs_list')]_vars
    /\ [][DetailGivenUp =>
            /\ errors' = errors + 1
            /\ jobs_list' = jobs_list
            /\ stop_reason' = stop_reason
            /\ all_req_ids' = all_req_ids
            /\ IF ridx < Len(page_req_ids)
               THEN sPc' = "detail" /\ ridx' = ridx + 1
               ELSE sPc' = "page_end"]_vars

C9_Witness ==
    /\ sPc = "closed"
    /\ SearchGivenUp
    /\ pages_scraped >= 1
    /\ jobs_list # <<>>
    /\ handed = jobs_list
    /\ batch_called
(***************************************************************************)
(* Embedding failures.                                                     *)
(***************************************************************************)
\* the sub-batch of embed_batch that job k falls into
ChunkOf(k) == ((k - 1) \div max_batch_size) + 1

\* C10 (as claimed): when embed_jobs has returned after one sub-batch used
\* up its 5 attempts, it has not raised, the jobs of that sub-batch have a
\* null embedding and the jobs of the sub-batches that succeeded have
\* theirs; once the store loop is over, every job of the call was handed
\* to storage.
C10_OnlyFailedSubBatchIsNull ==
    (ePc \in {"returned", "stored"}) =>
        /\ ~embed_raised
        /\ \A k \in 1..Len(ejobs) :
              ChunkOf(k) <= Len(chunk_log) =>
                  IF chunk_log[ChunkOf(k)] = "exhausted"
                  THEN ejobs[k] = "none"
                  ELSE ejobs[k] = "vector"
        /\ ePc = "stored" => estored = Len(ejobs)

(***************************************************************************)
(* Candidates without an embedding.                                        *)
(***************************************************************************)
\* _store_job of call t returns in this step
StoreStep(t) ==
    /\ task[t].pc = "store"
    /\ task'[t].pc = "done" \/ task'[t].sidx # task[t].sidx

\* the job _store_job of call t is about to store
StoreData(t) == task[t].to_embed[task[t].sidx]

Spaced(cl) ==
    \A k \in 1..(Len(starts[cl]) - 1) :
        starts[cl][k + 1] - starts[cl][k] >= MinInterval

\* C12 (as claimed): any two consecutive requests of the spider, and any
\* two consecutive provider requests of the embedding service, whichever
\* coroutine sends them, start at least min_interval apart.
C12_SharedGate == \A cl \in Clients : Spaced(cl)

\* the part of C12 that holds: the spider, whose requests all come from
\* the one coroutine running scrape
C12_SpiderGate == Spaced("spider")

(***************************************************************************)
(* Known identifiers.                                                      *)
(***************************************************************************)
SeqRange(q) == {q[i] : i \in DOMAIN q}

\* C13: no identifier of the known_ids handed to scrape is among the
\* identifiers of a page that go to _fetch_job_detail, is being fetched,
\* or belongs to a candidate that was yielded (and later handed to
\* process_batch).
C13_KnownIdsSkipped ==
    /\ SeqRange(page_req_ids) \cap known = {}
    /\ SeqRange(all_req_ids) \cap known = {}
    /\ sPc \in {"detail", "detail_handle"} => page_req_ids[ridx] \notin known
    /\ SeqRange(jobs_list) \cap known = {}
    /\ SeqRange(handed) \cap known = {}

\* a search page carried a known identifier, and a candidate of another
\* identifier was yielded and handed on
C13_Witness ==
    /\ known # {}
    /\ \E i \in DOMAIN pages_seen : SeqRange(pages_seen[i]) \cap known # {}
    /\ handed # <<>>
    /\ sPc = "closed"

(***************************************************************************)
(* is_duplicate and clear_cache, one call after the other.                 *)
(***************************************************************************)
\* an is_duplicate call returns in this step
DedupReturns == dedup'.n = dedup.n + 1

\* the fingerprint of the call that returns in this step
DedupReturnedFp ==
    generate_fingerprint(dedup'.title, dedup'.company, dedup'.location)

Normalized(str) == join(split(sub_non_word(lower(str))))

SameNormalized(x, y) ==
    /\ Normalized(x.title) = Normalized(y.title)
    /\ Normalized(x.company) = Normalized(y.company)
    /\ Normalized(x.location) = Normalized(y.location)

\* keys computed for a, b and a again: the two calls on a agree, and a and
\* b get one key if they normalize identically
KeysAgree(keys) ==
    keys # <<>> =>
        /\ keys[1] = keys[3]
        /\ SameNormalized(fpc.a, fpc.b) => keys[1] = keys[2]

\* C15 (as claimed): each generate_fingerprint (deduplication.py and
\* models.py) returns the same key for repeated calls on one triple, and
\* the same key for two triples that are equal after lower-casing,
\* replacing punctuation by blanks and collapsing whitespace.
C15_SameKeyForSameNormalForm ==
    KeysAgree(fpc.dedup_keys) /\ KeysAgree(fpc.models_keys)

\* the part of C15 that holds: generate_fingerprint of deduplication.py,
\* the one is_duplicate calls
C15_DedupFingerprint == KeysAgree(fpc.dedup_keys)

(***************************************************************************)
(* insert_job on a job_id the table already holds.                         *)
(***************************************************************************)
\* insert_job returns in this step, having met a row of its job_id
ConflictStep == ins'.n = ins.n + 1 /\ ins'.conflict

\* the row of the conflict carries the record's title, company and
\* description and a fresh updated_at, and `active` tells its active flag
UpdatedInPlace(active) ==
    /\ ins'.success
    /\ Len(rows') = Len(rows)
    /\ \A i \in 1..Len(rows) :
          IF rows[i].job_id = ins'.job_id
          THEN rows'[i] = [rows[i] EXCEPT
                             !.job_title = ins'.job_title,
                             !.company_name = ins'.company_name,
                             !.cleaned_len = ins'.cleaned_len,
                             !.is_valid = active[i],
                             !.updated_by = "on_conflict"]
          ELSE rows'[i] = rows[i]

\* C16 (as claimed): insert_job on a job_id that already has a row reports
\* success, adds no row, and leaves that row with the record's title and
\* description, a fresh updated timestamp and the active flag set.
C16_ConflictUpdatesRow ==
    [][ConflictStep =>
          UpdatedInPlace([i \in 1..Len(rows) |-> TRUE])]_vars

\* what insert_job does on a conflict: the same, with the active flag
\* (is_valid) left as it was
C16_ConflictKeepsActiveFlag ==
    [][ConflictStep =>
          UpdatedInPlace([i \in 1..Len(rows) |-> rows[i].is_valid])]_vars

(***************************************************************************)
(* Scrape cycles.                                                          *)
(***************************************************************************)
\* C17 (as claimed): whenever ScraperSystem starts a scrape cycle, the
\* counters of the pipeline are zero and the batch-local dedup set is
\* empty.
C17_FreshCountersEachCycle ==
    cyc.pc = "cycle_start" => (metrics = ZeroMetrics /\ cache = {})

\* run_scrape_cycle has been called and has not returned
InCycle ==
    cyc.pc \in {"cycle_start", "spider", "batch_call", "close", "health",
                "cycle_error", "summary"}

\* the most steps the process_batch call of the cycle can still take
TaskStepsLeft(tr) ==
    CASE tr.pc = "idle" -> 3 * Len(cyc.jobs) + 4
      [] tr.pc = "db_check" ->
            (Len(tr.batch) - tr.idx + 1) + Len(tr.batch) + 2
      [] tr.pc = "embed" -> Len(tr.to_embed) + 1
      [] tr.pc = "store" -> Len(tr.to_embed) - tr.sidx + 1
      [] OTHER -> 0

\* the most steps the cycle can still take before it returns
CycleStepsLeft ==
    CASE cyc.pc = "cycle_start" ->
            3 * MaxBatch + MaxCycleRequests + 11
      [] cyc.pc = "spider" ->
            3 * MaxBatch + 10 + (MaxCycleRequests - cyc.requests)
      [] cyc.pc = "batch_call" -> 5 + TaskStepsLeft(task[CycleTask])
      [] cyc.pc = "close" -> 3
      [] cyc.pc \in {"health", "cycle_error"} -> 2
      [] cyc.pc = "summary" -> 1
      [] OTHER -> 0

\* C19: run_scrape_cycle terminates and returns without raising, whether
\* scrape raised, spider.close raised, embedding failed or records were
\* rejected by the store: inside a cycle every step but the arrival of a
\* signal lowers a bound on the steps still to come and a next step always
\* exists; the cycle never ends by an exception; the metrics summary has
\* been logged once per cycle when the cycle returns; and while running
\* is set the main loop goes from its sleep into the next cycle.
C19_CycleAlwaysReturns ==
    /\ [](InCycle => (CycleStepsLeft > 0 /\ ENABLED CycleProgress))
    /\ [][(InCycle /\ running' = running)
             => CycleStepsLeft' < CycleStepsLeft]_vars
    /\ [](cyc.pc # "cycle_raised")
    /\ [](cyc.summaries = IF InCycle THEN cyc.cycle - 1 ELSE cyc.cycle)
    /\ []((cyc.pc = "loop_test" /\ running) => ENABLED loop_test)
    /\ []((cyc.pc = "sleep" /\ running /\ cyc.cycle < MaxCycles)
             => ENABLED sleep_returns)
    /\ [][(cyc.pc = "sleep" /\ running /\ cyc' # cyc)
             => (cyc'.pc = "cycle_start"
                 /\ cyc'.cycle = cyc.cycle + 1)]_vars

\* a second cycle has returned although scrape raised in it; the first
\* cycle stored a record
C19_Witness ==
    /\ cyc.pc = "sleep"
    /\ cyc.cycle = 2
    /\ cyc.summaries = 2
    /\ cyc.spider_error
    /\ rows # <<>>

(***************************************************************************)
(* Shutdown.                                                               *)
(***************************************************************************)
\* the spider issues an outbound request in this step
RequestIssued == cyc'.requests = cyc.requests + 1

\* the pipeline calls embed_jobs in this step
EmbedCallIssued ==
    task'[CycleTask].pc = "embed" /\ task[CycleTask].pc # "embed"

\* every row of the jobs table is still there, under its key
RowsKept ==
    /\ Len(rows') >= Len(rows)
    /\ \A i \in 1..Len(rows) : rows'[i].job_id = rows[i].job_id

\* once running is false no cycle is started after the one in progress
\* (setup is followed by the initial cycle whatever running is), and
\* stored records stay
C20_NoFurtherCycle ==
    /\ [][(~running /\ cyc.pc # "setup") => cyc'.cycle = cyc.cycle]_vars
    /\ [][RowsKept]_vars

\* C20 (as claimed): once a signal has set running to false during a
\* scrape cycle, the spider issues no further outbound request and the
\* pipeline no further embedding call in that cycle, no further cycle is
\* started, and the records already stored remain stored.
C20_QuietAfterSignal ==
    /\ [][(~running /\ InCycle)
             => (~RequestIssued /\ ~EmbedCallIssued)]_vars
    /\ C20_NoFurtherCycle

(***************************************************************************)
(* Sub-batches of embed_batch.                                             *)
(***************************************************************************)
\* no provider call of the embed_jobs call has failed: each returned, with
\* one vector for each text
NoneFailed ==
    \A k \in 1..Len(provider_calls) :
        /\ provider_calls[k].ok
        /\ provider_calls[k].vectors = Len(provider_calls[k].texts)

\* ceil(n / b)
CeilDiv(n, b) == (n + b - 1) \div b

\* the texts of the k-th sub-batch of n texts cut into sub-batches of b
SubBatch(k, n, b) ==
    [j \in 1..(IF k * b <= n THEN b ELSE n - (k - 1) * b) |->
        (k - 1) * b + j]

\* C18: when embed_batch has returned and no provider call failed, n texts
\* with maximum batch size b made exactly ceil(n/b) provider calls, the
\* k-th call carried texts (k-1)b+1 .. min(kb, n) in input order (sizes b,
\* ..., b and the remainder), and the n vectors came back in input order,
\* one for each job.
C18_ChunkedInOrder ==
    (ePc \in {"returned", "stored"} /\ NoneFailed) =>
        LET n == Len(ejobs)
            b == max_batch_size
        IN  /\ Len(provider_calls) = CeilDiv(n, b)
            /\ total_requests = CeilDiv(n, b)
            /\ \A k \in 1..Len(provider_calls) :
                  provider_calls[k].texts = SubBatch(k, n, b)
            /\ evectors = [k \in 1..n |-> k]
            /\ all_embeddings = n
            /\ \A k \in 1..n : ejobs[k] = "vector"

\* three texts in sub-batches of two: a full sub-batch and a remainder
C18_Witness ==
    /\ ePc = "returned"
    /\ NoneFailed
    /\ Len(ejobs) = 3
    /\ max_batch_size = 2
    /\ Len(provider_calls) = 2

(***************************************************************************)
(* Hybrid search: degradation, the result cache, the ranking.              *)
(***************************************************************************)
\* job_id of the rows of a result list
JobIdsOf(q) == {q[i].job_id : i \in DOMAIN q}

\* a search that went down the hybrid path of an object with an embedder
\* and came back without a query embedding
EmbeddingFailed(r) ==
    /\ hs.has_embedder
    /\ req[r].pc = "done"
    /\ req[r].how # "cache"
    /\ ~req[r].query_embedding

\* C21: search never leaves by an exception.  When embedding the query
\* failed (the embedder raised, or returned nothing usable), the result
\* consists of rows of the full-text search for that query only: the first
\* limit rows of it when the except clause answers, all of its rows up to
\* limit ranked without a vector score when the merge answers; the result is
\* the empty list of a failure only when the fallback full-text search
\* raised too, and is empty otherwise only if the query matches nothing.
C21_KeywordOnlyWhenEmbeddingFails ==
    \A r \in Searches :
        /\ req[r].pc # "raised"
        /\ EmbeddingFailed(r) =>
              LET q == req[r]
                  matched == Matches(q.query)
              IN  /\ Len(q.result) <= q.limit
                  /\ q.how \in {"fallback", "merged", "empty"}
                  /\ q.embed_failed => q.how \in {"fallback", "empty"}
                  /\ q.how = "fallback" => q.result = Slice(matched, q.limit)
                  /\ q.how = "merged" =>
                        /\ JobIdsOf(q.result) \subseteq JobIdsOf(matched)
                        /\ Len(q.result) = Len(Slice(matched, q.limit))
                        /\ \A i \in DOMAIN q.result :
                              /\ q.result[i].vector_rank = 0
                              /\ q.result[i].vector_score.num = 0
                  /\ q.how = "empty" <=> q.keyword_failed
                  /\ q.result = <<>> => (q.keyword_failed \/ matched = <<>>)

\* the embedder raised and the except clause answered with keyword rows
C21_Witness ==
    \E r \in Searches :
        /\ EmbeddingFailed(r)
        /\ req[r].embed_failed
        /\ req[r].how = "fallback"
        /\ req[r].result # <<>>

NormalizedQuery(query) == strip(lower(query))

SameFilterSet(f, g) ==
    {f[i] : i \in DOMAIN f} = {g[i] : i \in DOMAIN g}

\* the step in which search(r) is called
SearchCalled(r) == req[r].pc = "idle" /\ req'[r].pc # "idle"

\* the step in which search(r) returns
SearchReturns(r) == req[r].pc # "done" /\ req'[r].pc = "done"

\* a cache hit serves an entry of the cache younger than the time-to-live
\* that was stored for the same query text and the same set of filters; and
\* an entry for the same text and the same filters, in whatever order they
\* are given, is a hit while it is that young
ServedFromCache(r) ==
    /\ (SearchCalled(r) /\ req'[r].how = "cache") =>
          LET e == req'[r].hit[1]
          IN  /\ e \in hs.cache
              /\ sclock - e.cached_at < CacheTtl
              /\ NormalizedQuery(e.query) = NormalizedQuery(req'[r].query)
              /\ SameFilterSet(e.filters, req'[r].filters)
              /\ req'[r].result = Slice(e.results, req'[r].limit)
    /\ (/\ SearchCalled(r)
        /\ req'[r].use_cache
        /\ \E e \in hs.cache :
              /\ sclock - e.cached_at < CacheTtl
              /\ e.query = req'[r].query
              /\ SameFilterSet(e.filters, req'[r].filters))
          => req'[r].how = "cache"

\* the entry of the cache for the key of search r is the result r returns,
\* stored now
EntryIsFresh(r) ==
    \E e \in hs'.cache :
        /\ e.key = req'[r].cache_key
        /\ e.cached_at = sclock'
        /\ e.results = req'[r].result

\* C23 as stated: a cache hit serves an entry younger than the time-to-live
\* to a request with the same normalized query text and the same filter set
\* in any order, and a search that found an expired entry for its key has
\* replaced it by its own fresh result when it returns.
C23_ExpiredAlwaysReplaced ==
    [][\A r \in Searches :
          /\ ServedFromCache(r)
          /\ (SearchReturns(r) /\ req'[r].found_expired) => EntryIsFresh(r)
      ]_vars

\* C23, amended: as above, but the expired entry is replaced when the search
\* returns a merged ranking; a search that falls back to the keyword rows
\* (or to the empty list) returns them and leaves the cache as it is.
C23_ExpiredReplacedByMergedResult ==
    [][\A r \in Searches :
          /\ ServedFromCache(r)
          /\ (SearchReturns(r) /\ req'[r].found_expired) =>
                IF req'[r].how = "merged"
                THEN EntryIsFresh(r)
                ELSE /\ req'[r].how \in {"fallback", "empty"}
                     /\ hs'.cache = hs.cache
      ]_vars

\* an expired entry was found and replaced, by a request that gave the
\* filters in the other order
C23_Witness ==
    \E r \in Searches :
        /\ req[r].pc = "done"
        /\ req[r].found_expired
        /\ req[r].how = "merged"
        /\ \E e \in hs.cache :
              /\ e.key = req[r].cache_key
              /\ e.results = req[r].result
              /\ e.filters = req[r].filters
        /\ \E o \in Searches \ {r} :
              /\ req[o].cache_key = req[r].cache_key
              /\ req[o].filters # req[r].filters

\* the rows of the vector result set with the highest raw similarity
TopVectorJobs ==
    {mrg.vector_results[i].job_id : i \in
        {i \in DOMAIN mrg.vector_results :
            \A j \in DOMAIN mrg.vector_results :
                mrg.vector_results[i].similarity
                    >= mrg.vector_results[j].similarity}}

\* C24: for the same vector and keyword result sets, after
\* weights['vector_similarity'] was raised with the other weights unchanged,
\* a job with the highest raw vector similarity that was in the ranking
\* before is in the ranking _merge_results returns now, at the same or at a
\* better position.
C24_TopVectorItemNotDemoted ==
    mrg.pc = "remerged" =>
        \A job_id \in TopVectorJobs :
            Position(mrg.before, job_id) > 0 =>
                Position(mrg.after, job_id)
                    \in 1..Position(mrg.before, job_id)

\* the job of the highest raw similarity was second, and the raised weight
\* made it first
C24_Witness ==
    /\ mrg.pc = "remerged"
    /\ \E job_id \in TopVectorJobs :
          /\ Position(mrg.before, job_id) = 2
          /\ Position(mrg.after, job_id) = 1

\* the job_ids of a result set
ResultIds(results) == {results[i].job_id : i \in DOMAIN results}

\* ranked is what _merge_results may return under the weights of the state:
\* sorted by combined_score, non-increasing; at most limit entries; no
\* job_id twice; every entry a candidate, a job of both result sets with its
\* rank in each and both of its scores; no candidate left out that scores
\* strictly higher than an entry
IsRanking(ranked) ==
    LET all_jobs == ScoredJobs(mrg.vector_results, mrg.keyword_results,
                               mrg.weights)
    IN  /\ \A i, j \in DOMAIN ranked : i < j =>
              Geq(ranked[i].combined_score, ranked[j].combined_score)
        /\ Len(ranked) <= mrg.limit
        /\ \A i, j \in DOMAIN ranked : i # j =>
              ranked[i].job_id # ranked[j].job_id
        /\ \A i \in DOMAIN ranked :
              /\ \E c \in DOMAIN all_jobs : all_jobs[c] = ranked[i]
              /\ ranked[i].job_id \in ResultIds(mrg.vector_results) =>
                    LET v == Position(mrg.vector_results, ranked[i].job_id)
                    IN  /\ ranked[i].vector_rank = v
                        /\ ranked[i].vector_score.num
                               \in {0, mrg.vector_results[v].similarity}
              /\ ranked[i].job_id \in ResultIds(mrg.keyword_results) =>
                    LET k == Position(mrg.keyword_results, ranked[i].job_id)
                    IN  /\ ranked[i].keyword_rank = k
                        /\ ranked[i].keyword_score.num
                               \in {0, mrg.keyword_results[k].rank}
        /\ \A c \in DOMAIN all_jobs :
              all_jobs[c].job_id \notin ResultIds(ranked) =>
                  \A i \in DOMAIN ranked :
                      Geq(ranked[i].combined_score,
                          all_jobs[c].combined_score)

\* C25: the list _merge_results returns is sorted by combined_score in
\* non-increasing order, has at most limit entries, holds each job_id at most
\* once, a job of both result sets being one entry with both scores, and
\* leaves out no candidate that scores strictly higher than a returned one.
C25_SortedTruncatedMerged ==
    /\ mrg.pc = "merged" => IsRanking(mrg.before)
    /\ mrg.pc = "remerged" => IsRanking(mrg.after)

\* a ranking of two entries in another order than the candidates were
\* collected in, one of them a job of both result sets, with a candidate
\* left out
C25_Witness ==
    /\ mrg.pc = "merged"
    /\ Len(mrg.before) = 2
    /\ mrg.limit = 2
    /\ Len(ScoredJobs(mrg.vector_results, mrg.keyword_results, mrg.weights))
           = 3
    /\ mrg.before # SubSeq(ScoredJobs(mrg.vector_results,
                                      mrg.keyword_results, mrg.weights), 1, 2)
    /\ ~Geq(mrg.before[2].combined_score, mrg.before[1].combined_score)
    /\ \E i \in DOMAIN mrg.before :
          /\ mrg.before[i].vector_rank > 0
          /\ mrg.before[i].keyword_rank > 0

\* 0 <= score <= 1
InUnitInterval(score) ==
    /\ score.den > 0
    /\ score.num >= 0
    /\ score.num <= score.den

\* C30: every normalized vector_score and keyword_score of _merge_results
\* lies in [0, 1], whatever the raw scores are, and combined_score lies
\* between 0 and the sum of the three weights.
C30_ScoresInUnitInterval ==
    mrg.pc \in {"merged", "remerged"} =>
        LET all_jobs == ScoredJobs(mrg.vector_results, mrg.keyword_results,
                                   mrg.weights)
            weight_sum == [num |-> mrg.weights.vector_similarity
                                       + mrg.weights.keyword_match
                                       + mrg.weights.freshness,
                           den |-> 1]
        IN  \A c \in DOMAIN all_jobs :
                /\ InUnitInterval(all_jobs[c].vector_score)
                /\ InUnitInterval(all_jobs[c].keyword_score)
                /\ Geq(all_jobs[c].combined_score, Zero)
                /\ Geq(weight_sum, all_jobs[c].combined_score)

\* the part of C30 that holds: a source whose highest raw score is zero or
\* negative gives every row of it the score 0
C30_NonPositiveMaxGivesZero ==
    mrg.pc \in {"merged", "remerged"} =>
        LET all_jobs == ScoredJobs(mrg.vector_results, mrg.keyword_results,
                                   mrg.weights)
        IN  /\ (\A i \in DOMAIN mrg.vector_results :
                    mrg.vector_results[i].similarity <= 0) =>
                  \A c \in DOMAIN all_jobs : all_jobs[c].vector_score = Zero
            /\ (\A i \in DOMAIN mrg.keyword_results :
                    mrg.keyword_results[i].rank <= 0) =>
                  \A c \in DOMAIN all_jobs : all_jobs[c].keyword_score = Zero

(***************************************************************************)
(* The embedding text and the parser of the detail documents.              *)
(***************************************************************************)
\* every field of the record is populated
AllFieldsPopulated(job) ==
    /\ job.job_title # <<>>
    /\ job.skills_required.value # <<>>
    /\ job.job_description # <<>>
    /\ job.industry # <<>>
    /\ job.company_name # <<>>

\* C26: in the text _prepare_text composes for a record with all fields
\* populated, after the truncation to the budget, the title occurs strictly
\* more often than the company name.
C26_TitleMoreOftenThanCompany ==
    (prep.pc = "done" /\ AllFieldsPopulated(prep.job)) =>
        str_count(prep.text, prep.job.job_title)
            > str_count(prep.text, prep.job.company_name)

\* what holds of the text: it is the first TextBudget characters of the
\* title three times, the skills twice, the description prefix, the industry
\* and the company, each on a line of its own
C26_PartsRepeatedByWeight ==
    (prep.pc = "done" /\ AllFieldsPopulated(prep.job)) =>
        LET job == prep.job
            skills_text ==
                IF job.skills_required.kind = "list"
                THEN str_join(<<",", " ">>, job.skills_required.value)
                ELSE job.skills_required.value
            nl == <<"\n">>
        IN  prep.text =
                Slice(job.job_title \o nl \o job.job_title \o nl
                          \o job.job_title \o nl
                          \o skills_text \o nl \o skills_text \o nl
                          \o Slice(job.job_description, DescriptionPrefix)
                          \o nl \o job.industry \o nl \o job.company_name,
                      TextBudget)

\* the _fetch_job_detail calls of the spider that have begun and not ended
DetailsInFlight == IF detail_attempt > 0 \/ detail_resp # "none" THEN 1 ELSE 0

\* C27: at no time are more than 5 detail fetches of the spider in flight;
\* a search request is issued only when no detail fetch is in flight and
\* the identifiers of the page before have all been gone through; and the
\* identifiers of a page are gone through one after the other, the next one
\* only when the fetch of the one before has ended.
C27_PagesSequentialDetailsCapped ==
    [][/\ DetailsInFlight <= 5
       /\ DetailsInFlight' <= 5
       /\ search_requests' # search_requests =>
             /\ DetailsInFlight = 0
             /\ ridx = 0
       /\ ridx' # ridx =>
             \/ /\ ridx = 0
                /\ ridx' = 1
                /\ page_req_ids' # <<>>
                /\ search_requests' = search_requests
             \/ /\ DetailsInFlight = 1
                /\ DetailsInFlight' = 0
                /\ ridx' = ridx + 1
                /\ ridx' <= Len(page_req_ids)
             \/ /\ DetailsInFlight = 1
                /\ DetailsInFlight' = 0
                /\ ridx = Len(page_req_ids)
                /\ ridx' = 0
      ]_vars

\* the search request of the second page is out, after the two detail
\* fetches of the first page
C27_Witness ==
    /\ sPc = "search_handle"
    /\ Len(offsets_req) = 2
    /\ Len(all_req_ids) >= 2
    /\ pages_scraped = 1

\* the document has no title or no identifier where _parse_job looks for
\* them
LacksTitleOrId(raw) ==
    \/ raw.page_props \notin {"absent", "dict"}
    \/ merged_data(raw).title = <<>>
    \/ merged_data(raw).requisition_id = <<>>

\* C28: _parse_job does not raise, and for a document without a title or
\* without an identifier, the empty document and unrelated documents
\* included, it returns None, leaves self.errors as it was, and nothing is
\* yielded.
C28_MissingFieldsDiscardedSilently ==
    parse.pc = "returned" =>
        /\ ~parse.raised
        /\ LacksTitleOrId(parse.raw) =>
              /\ parse.returned = "None"
              /\ parse.errors = 0
              /\ parse.jobs_found = 0
              /\ parse.yielded = <<>>

\* the part of C28 that holds: _parse_job never raises, nothing is yielded
\* for a document without a title or an identifier, and self.errors is
\* unchanged when the document, or its 'pageProps', is a dict
C28_MissingFieldsOfDictsDiscardedSilently ==
    parse.pc = "returned" =>
        /\ ~parse.raised
        /\ LacksTitleOrId(parse.raw) =>
              /\ parse.returned = "None"
              /\ parse.jobs_found = 0
              /\ parse.yielded = <<>>
              /\ raw_is_read(parse.raw) => parse.errors = 0

\* the document has a title the record model accepts and an identifier, and
\* its plain-text description is below the record model's minimum
ShortDescription(raw) ==
    /\ raw_is_read(raw)
    /\ Len(merged_data(raw).title) >= ScrapedJobMinTitle
    /\ merged_data(raw).requisition_id # <<>>
    /\ Len(plain_description(merged_data(raw))) < ScrapedJobMinDescription

\* C29: every document whose plain-text description is below the minimum
\* length is discarded with the same effect on self.errors: whatever other
\* short description the document had instead, self.errors would have
\* changed as it did.
C29_ShortDescriptionsCountedAlike ==
    (parse.pc = "returned" /\ ShortDescription(parse.raw)) =>
        /\ parse.returned = "None"
        /\ \A d \in DocDescriptions :
              LET other == [parse.raw EXCEPT !.data.description = d]
              IN  ShortDescription(other) =>
                      parse_job(other).errors = parse.errors

\* the part of C29 that holds: a document with a short description is
\* discarded, and nothing is yielded for it
C29_ShortDescriptionsDiscarded ==
    (parse.pc = "returned" /\ ShortDescription(parse.raw)) =>
        /\ parse.returned = "None"
        /\ parse.yielded = <<>>
        /\ parse.errors =
               IF Len(plain_description(merged_data(parse.raw)))
                      < ParserMinDescription
               THEN 0 ELSE 1

(***************************************************************************)
(* Counters, isolation of failures, and the workers.                       *)
(***************************************************************************)
\* the pages with hits the server has returned
NonEmptyPages == Cardinality({i \in DOMAIN pages_seen : pages_seen[i] # <<>>})

\* 1 while scrape is in the loop body for a page with hits
PageInProgress ==
    IF \/ sPc \in {"detail", "detail_handle", "page_end"}
       \/ sPc = "search_handle" /\ search_resp.cards # <<>>
    THEN 1 ELSE 0

\* the identifiers of new jobs whose _fetch_job_detail call has ended
DetailsEnded ==
    Len(all_req_ids)
        - (IF ridx = 0 THEN 0 ELSE Len(page_req_ids) - ridx + 1)

MaintenanceOrder ==
    <<"url_validation", "expired_removed", "old_removed", "invalid_removed",
      "duplicates_removed", "orphan_embeddings_cleaned",
      "descriptions_sanitized">>

\* C32 as stated: when store failures happened inside tasks,
\* run_maintenance has still run all seven tasks in order and returns a
\* summary with success = true, and every count task that failed reports 0.
C32_FailedTaskReportsZero ==
    jan.pc = "done" =>
        /\ jan.ran = MaintenanceOrder
        /\ jan.success = "true"
        /\ \A t \in jan.failed \cap CountTasks : jan.counts[t] = 0

\* C32, amended: all seven tasks run in order and success = true; a failed
\* task of one statement reports 0; remove_invalid_jobs reports the rows it
\* deleted, also when a later statement of its loop failed; the statistics
\* of validate_job_urls count no more jobs than were returned for
\* validation.
C32_FailedTaskReportsWhatItDid ==
    jan.pc = "done" =>
        /\ jan.ran = MaintenanceOrder
        /\ jan.success = "true"
        /\ \A t \in (jan.failed \cap CountTasks) \ {"invalid_removed"} :
              jan.counts[t] = 0
        /\ jan.counts["invalid_removed"] = jan.invalid_deleted
        /\ jan.url_validation.validated
               = jan.url_validation.valid + jan.url_validation.invalid
        /\ jan.url_validation.validated <= jan.checked
        /\ "url_validation" \notin jan.failed =>
              jan.url_validation.validated = jan.checked
        /\ jan.descriptions_sanitized

\* maintenance returned after remove_expired_jobs failed and the loop of
\* remove_invalid_jobs failed after it had deleted a batch
C32_Witness ==
    /\ jan.pc = "done"
    /\ {"expired_removed", "invalid_removed"} \subseteq jan.failed
    /\ jan.counts["invalid_removed"] = CleanupBatchSize
    /\ jan.counts["old_removed"] > 0
    /\ jan.success = "true"


\* the key is held by a stored row, or by a job of a running call that
\* _store_job has not been given yet
KeyHeld(fingerprint, rs, tk) ==
    \/ fingerprint_exists(rs, fingerprint)
    \/ \E t \in Tasks :
          /\ tk[t].pc \notin {"idle", "done"}
          /\ \E i \in DOMAIN tk[t].to_embed :
                /\ i >= tk[t].sidx
                /\ tk[t].to_embed[i].fingerprint = fingerprint

\* C33: every candidate a step skips as a duplicate has its key held by a
\* record that is persisted or still to be stored by a running call; no key
\* stays in the dedup set after the record that introduced it failed in
\* _store_job.
C33_SkippedKeyIsHeld ==
    [][\A t \in Tasks :
          \A i \in (Len(task[t].verdicts) + 1)..Len(task'[t].verdicts) :
              task'[t].verdicts[i] = "dup"
              => KeyHeld(Fingerprint(task'[t].batch[i]), rows', task')]_vars


\* C34: after embed_jobs has returned every job has an 'embedding' field,
\* and every embedding that is not null is the vector the provider returned
\* for the text of that job, also when a provider call returned fewer
\* vectors than texts.
C34_EmbeddingsAligned ==
    (ePc \in {"returned", "stored"}) =>
        \A k \in 1..Len(ejobs) :
            /\ ejobs[k] # "unset"
            /\ ejobs[k] = "vector" =>
                  /\ k <= Len(evectors)
                  /\ evectors[k] = Texts(ejobs)[k]


\* the lists a search that misses the cache can return on its hybrid path
\* for the arguments of call q, with the store and the weights as they are:
\* with the query embedding, or without it
FreshResults(q) ==
    {merge_results(vector_results,
                   Slice(Matches(q.query), 2 * q.limit), q.limit, hs.weights) :
        vector_results \in {<<>>, Slice(Nearest(q.filters), 2 * q.limit)}}

\* C35: a call answered from the cache returns a list that a fresh search
\* with the same query, limit and filters would return; after a search with
\* a smaller limit was cached, a call with a larger limit does not get just
\* the cached results.
C35_CacheHitEqualsFreshSearch ==
    [][\A r \in Searches :
          (req[r].pc = "idle" /\ req'[r].pc = "done" /\ req'[r].how = "cache")
          => req'[r].result \in FreshResults(req'[r])]_vars


\* how often item occurs in the batches process_batch has gone through
Submissions(item) ==
    Cardinality({p \in {<<b, k>> : b \in 1..Len(adp.batches),
                                   k \in 1..MaxItems} :
                    /\ p[2] <= Len(adp.batches[p[1]])
                    /\ adp.batches[p[1]][p[2]] = item})

\* C36: once close_spider has returned, every item passed to process_item
\* was submitted to process_batch exactly once, also when process_item
\* calls overlapped a process_batch in progress.
C36_EveryItemSubmittedOnce ==
    adp.calls[0].pc = "done" =>
        \A item \in 1..adp.n : Submissions(item) = 1


\* self.weights of instance j of h
WeightsOf(h, j) == h.dicts[h.objs[j].weights]

\* what instance j of h ranks for a fixed pair of result sets
RankingOf(h, j) ==
    merge_results(Nearest(<<>>), Matches(<<"a">>), 2, WeightsOf(h, j))

\* C37: update_weights on one instance leaves the weights and the ranking
\* of every other instance unchanged, and the class default weights, which
\* instances constructed later use, stay as defined.
C37_WeightsNotShared ==
    /\ [](hsi.dicts[1] = DEFAULT_WEIGHTS)
    /\ [][\A i \in DOMAIN hsi.objs :
            hsi'.objs[i].cache_cleared # hsi.objs[i].cache_cleared
            => \A j \in DOMAIN hsi.objs \ {i} :
                  /\ WeightsOf(hsi', j) = WeightsOf(hsi, j)
                  /\ RankingOf(hsi', j) = RankingOf(hsi, j)]_vars


\* C38: every valid record stored without an embedding, for whose text the
\* provider succeeds, is eventually embedded by the worker; records that
\* keep failing do not keep it out of the window for ever.
C38_EventuallyEmbedded ==
    \A r \in 1..MaxRecords :
        (ew.table[r] = "null" /\ ~ew.bad[r]) ~> (ew.table[r] = "embedded")


\* the ids in a list of the queue
IdsIn(list) == {list[k] : k \in DOMAIN list}

\* C39: a job id is in at most one of the two lists and at most once,
\* it is processed at most once for each pop, and when an iteration of the
\* worker loop is over the id it popped is no longer in the active list,
\* also when reading its data, parsing it or processing it failed.
C39_PoppedIdLeavesActiveList ==
    /\ [](\A j \in 1..MaxQueued :
             /\ bw.processed[j] <= bw.pops[j]
             /\ Cardinality({k \in DOMAIN bw.waiting : bw.waiting[k] = j})
                + Cardinality({k \in DOMAIN bw.active : bw.active[k] = j})
                <= 1)
    /\ [][(bw.pc # "top" /\ bw'.pc = "top" /\ bw.job_id # 0)
            => bw.job_id \notin IdsIn(bw'.active)]_vars


\* call t goes through candidates in this step (process_job or
\* process_batch begins, or resumes from the store lookup)
LoopStep(t) ==
    /\ task[t].pc \in {"idle", "db_check"}
    /\ task'[t].pc # task[t].pc \/ task'[t].idx # task[t].idx

\* the candidate of the call that waits for the store lookup
AwaitingLookup(tr) == IF tr.pc = "db_check" THEN 1 ELSE 0

====
